---- MODULE Spec2Model ----
(***************************************************************************)
(* git-scanline: the hotspot detection engine (node/).                     *)
(*                                                                         *)
(* Paths, subjects and author identities are strings.  JavaScript numbers  *)
(* are modelled exactly: counts and rounded scores are integers, ratios    *)
(* are kept as fractions [num, den] and Math.round is computed on the      *)
(* fraction.  The result of 0/0 is the value NaN.                          *)
(***************************************************************************)
EXTENDS Integers, Sequences, FiniteSets, TLC

\* ------------------------------------------------------------------------
\* Strings
\* ------------------------------------------------------------------------

CharAt(s, i) == SubSeq(s, i, i)

\* String.prototype.startsWith(p, i-1)
StartsWithAt(s, i, p) ==
    /\ i >= 1
    /\ i + Len(p) - 1 <= Len(s)
    /\ SubSeq(s, i, i + Len(p) - 1) = p

StartsWith(s, p) == StartsWithAt(s, 1, p)

EndsWith(s, p) ==
    /\ Len(p) <= Len(s)
    /\ SubSeq(s, Len(s) - Len(p) + 1, Len(s)) = p

\* String.prototype.includes
Includes(s, p) == \E i \in 1..Len(s) : StartsWithAt(s, i, p)

\* the upper-case letters and their lower-case forms
UpperToLower ==
    [A |-> "a", B |-> "b", C |-> "c", D |-> "d", E |-> "e", F |-> "f", G |-> "g",
     H |-> "h", I |-> "i", J |-> "j", K |-> "k", L |-> "l", M |-> "m", N |-> "n",
     O |-> "o", P |-> "p", Q |-> "q", R |-> "r", S |-> "s", T |-> "t", U |-> "u",
     V |-> "v", W |-> "w", X |-> "x", Y |-> "y", Z |-> "z"]

LowerLetters == {UpperToLower[u] : u \in DOMAIN UpperToLower}

LowerChar(c) == IF c \in DOMAIN UpperToLower THEN UpperToLower[c] ELSE c

RECURSIVE toLowerCase(_)
toLowerCase(s) ==
    IF Len(s) = 0 THEN "" ELSE LowerChar(Head(s)) \o toLowerCase(Tail(s))

IsSpace(c) == c = " "

\* String.prototype.trim (the only white space of the modelled inputs is " ")
RECURSIVE trimStart(_)
trimStart(s) ==
    IF Len(s) > 0 /\ IsSpace(Head(s)) THEN trimStart(Tail(s)) ELSE s

RECURSIVE trimEnd(_)
trimEnd(s) ==
    IF Len(s) > 0 /\ IsSpace(CharAt(s, Len(s)))
    THEN trimEnd(SubSeq(s, 1, Len(s) - 1))
    ELSE s

trim(s) == trimEnd(trimStart(s))

\* \w of a regular expression
IsWordChar(c) ==
    \/ c \in DOMAIN UpperToLower
    \/ c \in LowerLetters
    \/ c \in {"0", "1", "2", "3", "4", "5", "6", "7", "8", "9", "_"}

\* \b of a regular expression, between position i-1 and position i of s
WordBoundary(s, i) ==
    LET before == i > 1 /\ i - 1 <= Len(s) /\ IsWordChar(CharAt(s, i - 1))
        after  == i >= 1 /\ i <= Len(s) /\ IsWordChar(CharAt(s, i))
    IN  before # after

\* String.prototype.split(sep) for a one-character separator: the pieces
\* between consecutive occurrences of sep, the ends of s included
split(s, sep) ==
    LET seps  == {i \in 1..Len(s) : CharAt(s, i) = sep}
        cuts  == seps \cup {0, Len(s) + 1}
        nth   == [k \in 1..Cardinality(cuts) |->
                     CHOOSE p \in cuts : Cardinality({q \in cuts : q < p}) = k - 1]
    IN  [k \in 1..(Cardinality(cuts) - 1) |-> SubSeq(s, nth[k] + 1, nth[k + 1] - 1)]

\* The order of the UTF-16 code units of the characters that occur in paths
CodeOrder == " -./0123456789=>ABCDEFGHIJKLMNOPQRSTUVWXYZ_abcdefghijklmnopqrstuvwxyz{|}"

CodeOf(c) ==
    IF \E i \in 1..Len(CodeOrder) : CharAt(CodeOrder, i) = c
    THEN CHOOSE i \in 1..Len(CodeOrder) : CharAt(CodeOrder, i) = c
    ELSE 0

\* a < b in the order Array.prototype.sort() uses by default
RECURSIVE StrLess(_, _)
StrLess(a, b) ==
    IF Len(b) = 0 THEN FALSE
    ELSE IF Len(a) = 0 THEN TRUE
    ELSE IF Head(a) = Head(b) THEN StrLess(Tail(a), Tail(b))
    ELSE CodeOf(Head(a)) < CodeOf(Head(b))

\* ------------------------------------------------------------------------
\* Sequences, sets and numbers
\* ------------------------------------------------------------------------

Range(s) == {s[i] : i \in 1..Len(s)}

\* the elements of s at the positions that keep selects, in order
SelectIdx(s, keep(_)) ==
    LET kept == SelectSeq([i \in 1..Len(s) |-> i], keep)
    IN  [k \in 1..Len(kept) |-> s[kept[k]]]

SetMax(S) == CHOOSE x \in S : \A y \in S : y <= x

Min2(a, b) == IF a <= b THEN a ELSE b
Max2(a, b) == IF a >= b THEN a ELSE b

RECURSIVE SumSeq(_)
SumSeq(s) == IF Len(s) = 0 THEN 0 ELSE Head(s) + SumSeq(Tail(s))

\* Math.round(n / d) for d > 0: the nearest integer, halves towards +infinity
Round(n, d) == (2 * n + d) \div (2 * d)

\* Array.prototype.sort(cmp) is stable: an insertion sort that moves an
\* element left only past elements it must precede (before(x, y) is cmp(x, y) < 0)
StableSort(s, before(_, _)) ==
    LET RECURSIVE Ins(_, _)
        Ins(sorted, x) ==
            IF Len(sorted) = 0 THEN <<x>>
            ELSE IF before(x, sorted[Len(sorted)])
                 THEN Ins(SubSeq(sorted, 1, Len(sorted) - 1), x) \o <<sorted[Len(sorted)]>>
                 ELSE sorted \o <<x>>
        RECURSIVE Srt(_)
        Srt(n) == IF n = 0 THEN <<>> ELSE Ins(Srt(n - 1), s[n])
    IN  Srt(Len(s))

\* Array.prototype.slice(0, n) for n >= 0
SliceTo(s, n) == SubSeq(s, 1, Min2(n, Len(s)))

\* ------------------------------------------------------------------------
\* Commits (types.ts).  A Commit is [hash, author, timestamp, subject, files];
\* timestamp is in seconds, files is the list of touched paths.
\* ------------------------------------------------------------------------

\* for (const commit of commits) for (const file of commit.files): the visits
\* of the nested loop, in order
Touches(commits) ==
    LET OfCommit(c) == [i \in 1..Len(c.files) |-> [commit |-> c, file |-> c.files[i]]]
        RECURSIVE All(_)
        All(k) == IF k > Len(commits) THEN <<>>
                  ELSE OfCommit(commits[k]) \o All(k + 1)
    IN  All(1)

\* the visits that pass `if (!fileSet.has(file)) continue`
TouchesIn(commits, fileSet) ==
    LET t == Touches(commits) IN SelectIdx(t, LAMBDA i : t[i].file \in fileSet)

\* A Map<string, number> of counters: a function on the keys set so far
CountGet(m, k) == IF k \in DOMAIN m THEN m[k] ELSE 0

CountAdd(m, k, n) ==
    [x \in DOMAIN m \cup {k} |-> IF x = k THEN CountGet(m, k) + n ELSE m[x]]

EmptyMap == [x \in {} |-> 0]

\* counts.set(file, (counts.get(file) ?? 0) + 1) for every visit: a key per
\* visited file, its value the number of visits of the file
CountTouches(touches) ==
    [f \in {touches[i].file : i \in 1..Len(touches)} |->
        Cardinality({i \in 1..Len(touches) : touches[i].file = f})]

MapValues(m) == {m[k] : k \in DOMAIN m}

\* ------------------------------------------------------------------------
\* Security scanner (analyzers/security-check.ts)
\* ------------------------------------------------------------------------

\* variant: the env pattern without its tail (\.|$), so that any name beginning
\* with ".env" matches
ENV_PATTERN_NoTail(file) ==
    LET lower == toLowerCase(file)
    IN  \E i \in 1..Len(file) :
            /\ i = 1 \/ CharAt(file, i - 1) = "/"
            /\ StartsWithAt(lower, i, ".env")

\* /(?:^|\/)\.(env)(\.|$)/i
ENV_PATTERN(file) ==
    LET lower == toLowerCase(file)
    IN  \E i \in 1..Len(file) :
            /\ i = 1 \/ CharAt(file, i - 1) = "/"
            /\ StartsWithAt(lower, i, ".env")
            /\ i + 4 > Len(file) \/ CharAt(file, i + 4) = "."

KeyExtensions == {"pem", "key", "p12", "pfx", "cer", "crt", "jks", "ppk", "keystore"}

\* /\.(pem|key|p12|pfx|cer|crt|jks|ppk|keystore)$/i
KEY_PATTERN(file) ==
    \E e \in KeyExtensions : EndsWith(toLowerCase(file), "." \o e)

CredentialWords ==
    {"credential", "secret", "password", "passwd",
     "privatekey", "private_key", "private-key",
     "apikey", "api_key", "api-key",
     "authtoken", "auth_token", "auth-token"}

\* /(?:^|\/)(?:credential|secret|password|passwd|private[_-]?key|api[_-]?key|auth[_-]?token)[^/]*$/i
CRED_PATTERN(file) ==
    LET lower == toLowerCase(file)
    IN  \E i \in 1..Len(file) :
            /\ i = 1 \/ CharAt(file, i - 1) = "/"
            /\ \E wd \in CredentialWords : StartsWithAt(lower, i, wd)
            /\ \A j \in i..Len(file) : CharAt(file, j) # "/"

getRiskType(file) ==
    IF ENV_PATTERN(file) THEN "env-file"
    ELSE IF KEY_PATTERN(file) THEN "key-or-cert"
    ELSE IF CRED_PATTERN(file) THEN "credential-file"
    ELSE "null"

\* new Date(t * 1000).toISOString().slice(0, 10): the UTC calendar day of t,
\* kept as the number of the day since the epoch
IsoDay(t) == t \div 86400

\* the Map `risks` after the loops: its entries in insertion order
RiskEntries(commits) ==
    LET t == Touches(commits)
        RECURSIVE Scan(_)
        Scan(n) ==
            IF n = 0 THEN <<>>
            ELSE LET risks == Scan(n - 1)
                     file  == t[n].file
                     ts    == t[n].commit.timestamp
                     rt    == getRiskType(file)
                 IN  IF rt = "null" THEN risks
                     ELSE IF \A i \in 1..Len(risks) : risks[i].file # file
                          THEN Append(risks, [file |-> file, riskType |-> rt, count |-> 1,
                                              first |-> ts, last |-> ts])
                          ELSE [i \in 1..Len(risks) |->
                                   IF risks[i].file # file THEN risks[i]
                                   ELSE [risks[i] EXCEPT
                                           !.count = @ + 1,
                                           !.first = IF ts < @ THEN ts ELSE @,
                                           !.last  = IF ts > @ THEN ts ELSE @]]
    IN  Scan(Len(t))

analyzeSecurityRisks(commits) ==
    LET entries == RiskEntries(commits)
        mapped  == [i \in 1..Len(entries) |->
                       [file        |-> entries[i].file,
                        riskType    |-> entries[i].riskType,
                        commitCount |-> entries[i].count,
                        firstSeen   |-> IsoDay(entries[i].first),
                        lastSeen    |-> IsoDay(entries[i].last)]]
    IN  StableSort(mapped, LAMBDA a, b : b.commitCount - a.commitCount < 0)

\* ------------------------------------------------------------------------
\* Noise filter (filters/file-filter.ts)
\* ------------------------------------------------------------------------

EXCLUDED_DIRS ==
    {"node_modules", ".git", "vendor", "dist", "build", "coverage",
     ".nyc_output", "__pycache__", ".pytest_cache", "venv", ".venv",
     "env", ".next", ".nuxt", "target", "out", ".cache", ".turbo",
     ".parcel-cache", "public", "static"}

EXCLUDED_FILENAMES ==
    {"package.json", "package-lock.json", "yarn.lock", "pnpm-lock.yaml",
     "composer.lock", "Gemfile.lock", "Pipfile.lock", "poetry.lock",
     "go.sum", "Cargo.lock", "packages.lock.json", "npm-shrinkwrap.json",
     ".gitignore", ".gitattributes", ".editorconfig", ".eslintrc", ".prettierrc",
     ".browserslistrc", "CHANGELOG.md", "CHANGELOG", ".DS_Store", "Thumbs.db"}

EXCLUDED_EXTENSIONS ==
    {".lock", ".map", ".snap",
     ".png", ".jpg", ".jpeg", ".gif", ".svg", ".ico", ".webp", ".avif",
     ".woff", ".woff2", ".ttf", ".eot", ".otf",
     ".mp4", ".mp3", ".wav", ".ogg", ".webm",
     ".pdf", ".zip", ".tar", ".gz", ".bz2", ".xz", ".7z", ".dmg", ".exe",
     ".min.js", ".min.css"}

\* variant: the extension compared with the final segment as written
KeepFile_CaseSensitive(file, pathFilter) ==
    LET normalized == IF EndsWith(pathFilter, "/") THEN pathFilter ELSE pathFilter \o "/"
        segments   == split(file, "/")
        filename   == segments[Len(segments)]
    IN  /\ file # ""
        /\ pathFilter # "" => (StartsWith(file, normalized) \/ file = pathFilter)
        /\ \A i \in 1..Len(segments) : segments[i] \notin EXCLUDED_DIRS
        /\ filename \notin EXCLUDED_FILENAMES
        /\ \A ext \in EXCLUDED_EXTENSIONS : ~EndsWith(filename, ext)

\* variant: the scope compared as a plain string prefix
KeepFile_PrefixScope(file, pathFilter) ==
    LET segments   == split(file, "/")
        filename   == segments[Len(segments)]
        lower      == toLowerCase(filename)
    IN  /\ file # ""
        /\ pathFilter # "" => StartsWith(file, pathFilter)
        /\ \A i \in 1..Len(segments) : segments[i] \notin EXCLUDED_DIRS
        /\ filename \notin EXCLUDED_FILENAMES
        /\ \A ext \in EXCLUDED_EXTENSIONS : ~EndsWith(lower, ext)

\* the callback of files.filter; pathFilter "" is the absent (null) scope
KeepFile(file, pathFilter) ==
    LET normalized == IF EndsWith(pathFilter, "/") THEN pathFilter ELSE pathFilter \o "/"
        segments   == split(file, "/")
        filename   == segments[Len(segments)]
        lower      == toLowerCase(filename)
    IN  /\ file # ""
        /\ pathFilter # "" => (StartsWith(file, normalized) \/ file = pathFilter)
        /\ \A i \in 1..Len(segments) : segments[i] \notin EXCLUDED_DIRS
        /\ filename \notin EXCLUDED_FILENAMES
        /\ \A ext \in EXCLUDED_EXTENSIONS : ~EndsWith(lower, ext)

filterFiles(files, pathFilter) ==
    SelectIdx(files, LAMBDA i : KeepFile(files[i], pathFilter))


\* ------------------------------------------------------------------------
\* Churn (analyzers/churn.ts)
\* ------------------------------------------------------------------------

HalfLifeDays == 139

\* n / d truncated towards zero, d > 0 (dayjs's absFloor of a difference)
TruncDiv(n, d) == IF n >= 0 THEN n \div d ELSE -((-n) \div d)

\* now.diff(dayjs.unix(timestamp), 'day')
DaysAgo(now, timestamp) == TruncDiv(now - timestamp, 86400)

RECURSIVE Pow2(_)
Pow2(k) == IF k <= 0 THEN 1 ELSE 2 * Pow2(k - 1)

\* Math.exp(-DECAY_LAMBDA * daysAgo) in units of 0.00001: the value halves
\* every HalfLifeDays days (DECAY_LAMBDA = 0.005) and is interpolated linearly
\* inside a half-life; beyond 17 half-lives it is below the unit (a commit
\* dated after `now` has a negative age and a weight above 1)
DecayWeight(daysAgo) ==
    IF daysAgo >= 0
    THEN LET k    == daysAgo \div HalfLifeDays
             r    == daysAgo % HalfLifeDays
             base == IF k > 17 THEN 0 ELSE 100000 \div Pow2(k)
         IN  base - (base * r) \div (2 * HalfLifeDays)
    ELSE LET k    == (-daysAgo) \div HalfLifeDays
             r    == (-daysAgo) % HalfLifeDays
             base == 100000 * Pow2(k)
         IN  base + (base * r) \div HalfLifeDays

\* the Map fileChurn after the loop: weightedChurn per touched filtered file
WeightedChurn(commits, fileSet, now) ==
    LET t == TouchesIn(commits, fileSet)
        RECURSIVE Acc(_)
        Acc(n) == IF n = 0 THEN EmptyMap
                  ELSE CountAdd(Acc(n - 1), t[n].file,
                                DecayWeight(DaysAgo(now, t[n].commit.timestamp)))
    IN  Acc(Len(t))

analyzeChurn(commits, files, now) ==
    LET fileSet      == Range(files)
        commitCount  == CountTouches(TouchesIn(commits, fileSet))
        weighted     == WeightedChurn(commits, fileSet, now)
        totalCommits == Max2(Len(commits), 1)
        \* reduce(max, 0.0001): 10 units of 0.00001
        maxWeighted  == SetMax(MapValues(weighted) \cup {10})
    IN  [file \in fileSet |->
            [commitCount   |-> CountGet(commitCount, file),
             rawScore      |-> Min2(100, Round(CountGet(commitCount, file) * 500, totalCommits)),
             weightedScore |-> Round(CountGet(weighted, file) * 100, maxWeighted)]]

\* ------------------------------------------------------------------------
\* Max-normalised counters (bug-correlation.ts, revert-tracker.ts,
\* burst-detector.ts): Math.round((count / max) * 100) with
\* max = values.reduce(Math.max, 0.0001), computed in units of 0.0001
\* ------------------------------------------------------------------------

\* variant: the count divided by the largest count plus one
NormalizedScore_Smoothed(count, counts) ==
    Round(count * 100, SetMax(counts \cup {0}) + 1)

NormalizedScore(count, counts) ==
    Round(count * 10000 * 100, SetMax({10000 * v : v \in counts} \cup {1}))

\* ------------------------------------------------------------------------
\* Bug correlation (analyzers/bug-correlation.ts)
\* ------------------------------------------------------------------------

BugWords == {"fix", "bug", "patch", "hotfix", "regression", "broken", "crash",
             "defect", "issue", "error"}

\* /\b(w1|w2|...)\b/i.test(s)
WholeWordMatch(s, words) ==
    LET lower == toLowerCase(s)
    IN  \E i \in 1..Len(s) : \E wd \in words :
            /\ StartsWithAt(lower, i, wd)
            /\ WordBoundary(s, i)
            /\ WordBoundary(s, i + Len(wd))

BUG_PATTERN(subject) == WholeWordMatch(subject, BugWords)

SelectCommits(commits, keep(_)) == SelectIdx(commits, LAMBDA i : keep(commits[i]))

analyzeBugCorrelation(commits, files) ==
    LET fileSet       == Range(files)
        bugCommits    == SelectCommits(commits, LAMBDA c : BUG_PATTERN(c.subject))
        fileBugCounts == CountTouches(TouchesIn(bugCommits, fileSet))
    IN  [file \in fileSet |->
            [bugCommits |-> CountGet(fileBugCounts, file),
             bugScore   |-> NormalizedScore(CountGet(fileBugCounts, file),
                                            MapValues(fileBugCounts))]]

\* ------------------------------------------------------------------------
\* Revert tracking (analyzers/revert-tracker.ts)
\* ------------------------------------------------------------------------

\* /^revert\b/i
REVERT_PATTERN(s) ==
    /\ StartsWith(toLowerCase(s), "revert")
    /\ WordBoundary(s, 7)

analyzeReverts(commits, files) ==
    LET fileSet       == Range(files)
        revertCommits == SelectCommits(commits, LAMBDA c : REVERT_PATTERN(trim(c.subject)))
        fileReverts   == CountTouches(TouchesIn(revertCommits, fileSet))
    IN  [file \in fileSet |->
            [revertCount |-> CountGet(fileReverts, file),
             revertScore |-> NormalizedScore(CountGet(fileReverts, file),
                                             MapValues(fileReverts))]]

\* ------------------------------------------------------------------------
\* Burst detection (analyzers/burst-detector.ts)
\* ------------------------------------------------------------------------

BURST_WINDOW_HOURS == 24
BURST_MIN_COMMITS == 3

\* fileTimestamps.get(file) ?? []: the timestamps of the visits of file, in
\* commit order
FileTimestamps(commits, file) ==
    LET t == TouchesIn(commits, {file})
    IN  [i \in 1..Len(t) |-> t[i].commit.timestamp]

\* variant: the scan goes on at the next commit after a counted run
CountBursts_Overlapping(timestamps) ==
    LET n == Len(timestamps)
        burstWindowSeconds == BURST_WINDOW_HOURS * 3600
        RECURSIVE Inner(_, _)
        Inner(i, j) ==
            IF j <= n /\ timestamps[j] - timestamps[i] <= burstWindowSeconds
            THEN Inner(i, j + 1) ELSE j
        RECURSIVE Outer(_, _)
        Outer(i, burstIncidents) ==
            IF i > n THEN burstIncidents
            ELSE LET j     == Inner(i, i + 1)
                     count == j - i
                 IN  IF count >= BURST_MIN_COMMITS
                     THEN Outer(i + 1, burstIncidents + 1)
                     ELSE Outer(i + 1, burstIncidents)
    IN  Outer(1, 0)

\* the while loops over the sorted timestamps
CountBursts(timestamps) ==
    LET n == Len(timestamps)
        burstWindowSeconds == BURST_WINDOW_HOURS * 3600
        RECURSIVE Inner(_, _)
        Inner(i, j) ==
            IF j <= n /\ timestamps[j] - timestamps[i] <= burstWindowSeconds
            THEN Inner(i, j + 1) ELSE j
        RECURSIVE Outer(_, _)
        Outer(i, burstIncidents) ==
            IF i > n THEN burstIncidents
            ELSE LET j     == Inner(i, i + 1)
                     count == j - i
                 IN  IF count >= BURST_MIN_COMMITS
                     THEN Outer(j, burstIncidents + 1)
                     ELSE Outer(i + 1, burstIncidents)
    IN  Outer(1, 0)

\* variant: the result holds the files that some commit touches only
analyzeBursts_TouchedOnly(commits, files) ==
    LET fileSet   == {f \in Range(files) : Len(FileTimestamps(commits, f)) > 0}
        rawResult == [file \in fileSet |->
                         CountBursts(StableSort(FileTimestamps(commits, file),
                                                LAMBDA a, b : a - b < 0))]
    IN  [file \in DOMAIN rawResult |->
            [burstIncidents |-> rawResult[file],
             burstScore     |-> NormalizedScore(rawResult[file], MapValues(rawResult))]]

analyzeBursts(commits, files) ==
    LET fileSet   == Range(files)
        rawResult == [file \in fileSet |->
                         CountBursts(StableSort(FileTimestamps(commits, file),
                                                LAMBDA a, b : a - b < 0))]
    IN  [file \in DOMAIN rawResult |->
            [burstIncidents |-> rawResult[file],
             burstScore     |-> NormalizedScore(rawResult[file], MapValues(rawResult))]]


\* ------------------------------------------------------------------------
\* Co-change coupling (analyzers/coupling.ts)
\* ------------------------------------------------------------------------

MAX_FILES_PER_COMMIT == 20

\* variant: the key keeps the order in which the commit lists the two files
PairKey_Listed(a, b) == <<a, b>>

\* [a, b].sort().join('||'), kept as the pair <<fileA, fileB>> that
\* key.split('||') gives back
PairKey(a, b) == IF StrLess(b, a) THEN <<b, a>> ELSE <<a, b>>

\* commit.files.filter(f => fileSet.has(f))
TouchedOf(commit, fileSet) ==
    SelectIdx(commit.files, LAMBDA i : commit.files[i] \in fileSet)

\* the keys of the pairs (i, j), i < j, of one commit, in loop order
PairsOf(touched) ==
    LET n == Len(touched)
        RECURSIVE From(_, _)
        From(i, j) ==
            IF i > n THEN <<>>
            ELSE IF j > n THEN From(i + 1, i + 2)
            ELSE <<PairKey(touched[i], touched[j])>> \o From(i, j + 1)
    IN  From(1, 2)

\* the pair keys counted over all commits, in loop order; a commit touching
\* more than MAX_FILES_PER_COMMIT filtered files contributes none
CountedPairs(commits, fileSet) ==
    LET RECURSIVE All(_)
        All(k) ==
            IF k > Len(commits) THEN <<>>
            ELSE LET touched == TouchedOf(commits[k], fileSet)
                 IN  (IF Len(touched) > MAX_FILES_PER_COMMIT THEN <<>> ELSE PairsOf(touched))
                        \o All(k + 1)
    IN  All(1)

\* the Map pairCounts: entries [key, coChanges] in insertion order
PairCounts(commits, fileSet) ==
    LET keys == CountedPairs(commits, fileSet)
        RECURSIVE Acc(_)
        Acc(n) ==
            IF n = 0 THEN <<>>
            ELSE LET m == Acc(n - 1)
                 IN  IF \E i \in 1..Len(m) : m[i].key = keys[n]
                     THEN [i \in 1..Len(m) |->
                              IF m[i].key = keys[n]
                              THEN [m[i] EXCEPT !.coChanges = @ + 1] ELSE m[i]]
                     ELSE Append(m, [key |-> keys[n], coChanges |-> 1])
    IN  Acc(Len(keys))

CouplingOf(entry, fileCounts) ==
    LET fileA  == entry.key[1]
        fileB  == entry.key[2]
        totalA == IF fileA \in DOMAIN fileCounts THEN fileCounts[fileA] ELSE 1
        totalB == IF fileB \in DOMAIN fileCounts THEN fileCounts[fileB] ELSE 1
        union  == totalA + totalB - entry.coChanges
    IN  [fileA |-> fileA, fileB |-> fileB, coChanges |-> entry.coChanges,
         strength |-> IF union > 0 THEN Round(entry.coChanges * 100, union) ELSE 0]

analyzeCoupling(commits, files) ==
    LET fileSet    == Range(files)
        pairCounts == PairCounts(commits, fileSet)
        fileCounts == CountTouches(TouchesIn(commits, fileSet))
        kept       == SelectIdx(pairCounts, LAMBDA i : ~(pairCounts[i].coChanges < 3))
        couplings  == [i \in 1..Len(kept) |-> CouplingOf(kept[i], fileCounts)]
    IN  StableSort(couplings, LAMBDA a, b : b.coChanges - a.coChanges < 0)

getCouplingScores(files, couplings) ==
    LET RECURSIVE Acc(_)
        Acc(n) ==
            IF n = 0 THEN [f \in Range(files) |-> 0]
            ELSE LET scores == Acc(n - 1)
                     c      == couplings[n]
                     prevA  == CountGet(scores, c.fileA)
                     prevB  == CountGet(scores, c.fileB)
                     afterA == IF c.fileA \in DOMAIN scores
                               THEN [scores EXCEPT ![c.fileA] = Max2(prevA, c.strength)]
                               ELSE scores
                 IN  IF c.fileB \in DOMAIN afterA
                     THEN [afterA EXCEPT ![c.fileB] = Max2(prevB, c.strength)]
                     ELSE afterA
    IN  Acc(Len(couplings))

\* ------------------------------------------------------------------------
\* Author silo (git/blame-analyzer.ts)
\* ------------------------------------------------------------------------

\* fileAuthorMap.get(file): entries [author, count] in insertion order
AuthorMap(commits, file) ==
    LET t == TouchesIn(commits, {file})
        RECURSIVE Acc(_)
        Acc(n) ==
            IF n = 0 THEN <<>>
            ELSE LET m == Acc(n - 1)
                     a == t[n].commit.author
                 IN  IF \E i \in 1..Len(m) : m[i].author = a
                     THEN [i \in 1..Len(m) |->
                              IF m[i].author = a THEN [m[i] EXCEPT !.count = @ + 1] ELSE m[i]]
                     ELSE Append(m, [author |-> a, count |-> 1])
    IN  Acc(Len(t))

\* for (const [author, count] of authorMap): the first entry with the
\* greatest count
TopEntry(authorMap) ==
    LET RECURSIVE Scan(_)
        Scan(n) ==
            IF n = 0 THEN [author |-> "", count |-> 0]
            ELSE LET top == Scan(n - 1)
                 IN  IF authorMap[n].count > top.count THEN authorMap[n] ELSE top
    IN  Scan(Len(authorMap))

SiloOf(authorMap) ==
    IF Len(authorMap) = 0
    THEN [topAuthor |-> "unknown", topAuthorPercent |-> 100, authorCount |-> 1]
    ELSE LET top          == TopEntry(authorMap)
             totalCommits == SumSeq([i \in 1..Len(authorMap) |-> authorMap[i].count])
         IN  [topAuthor        |-> top.author,
              topAuthorPercent |-> IF totalCommits > 0
                                   THEN Round(top.count * 100, totalCommits) ELSE 100,
              authorCount      |-> Len(authorMap)]

analyzeAuthors(commits, files) ==
    [file \in Range(files) |-> SiloOf(AuthorMap(commits, file))]

\* ------------------------------------------------------------------------
\* Commit quality (analyzers/commit-quality.ts)
\* ------------------------------------------------------------------------

LARGE_COMMIT_THRESHOLD == 30
SHORT_MSG_MIN_LENGTH == 10

WipWords == {"wip", "temp", "tmp", "fixup", "squash", "hack", "dirty", "oops",
             "typo", "debug", "draft"}

GenericSubjects == {"fix", "update", "changes", "stuff", "misc", "test", "cleanup",
                    "commit", "save", "ok", "done"}

\* /^\s*[.!]?\s*$/ of the rest of a subject
GenericTail(rest) ==
    LET r1 == trimStart(rest)
        r2 == IF Len(r1) > 0 /\ Head(r1) \in {".", "!"} THEN Tail(r1) ELSE r1
    IN  Len(trimStart(r2)) = 0

\* /\b(wip|...)\b|^(fix|update|...)\s*[.!]?\s*$/i
WIP_PATTERN(s) ==
    \/ WholeWordMatch(s, WipWords)
    \/ \E wd \in GenericSubjects :
          /\ StartsWith(toLowerCase(s), wd)
          /\ GenericTail(SubSeq(s, Len(wd) + 1, Len(s)))

IsWip(commit) ==
    \/ WIP_PATTERN(trim(commit.subject))
    \/ Len(trim(commit.subject)) < SHORT_MSG_MIN_LENGTH

IsLarge(commit) == Len(commit.files) > LARGE_COMMIT_THRESHOLD

\* commitQualityScore is the fraction num / den
analyzeCommitQuality(commits, files) ==
    LET fileSet     == Range(files)
        wipCounts   == CountTouches(TouchesIn(SelectCommits(commits, IsWip), fileSet))
        largeCounts == CountTouches(TouchesIn(SelectCommits(commits, IsLarge), fileSet))
        maxWip      == SetMax(MapValues(wipCounts) \cup {1})
        maxLarge    == SetMax(MapValues(largeCounts) \cup {1})
    IN  [file \in fileSet |->
            LET wip   == CountGet(wipCounts, file)
                large == CountGet(largeCounts, file)
            IN  [wipCommits         |-> wip,
                 largeCommitCount   |-> large,
                 commitQualityScore |-> [num |-> wip * 60 * maxLarge + large * 40 * maxWip,
                                         den |-> maxWip * maxLarge]]]


\* ------------------------------------------------------------------------
\* Hotspot scorer (scoring/hotspot-scorer.ts).  A weight is a non-negative
\* integer number of hundredths (0.27 is 27); a weight override is a function
\* on a subset of WeightKeys (Partial<Weights>).
\* ------------------------------------------------------------------------

WeightKeys == {"churn", "bugs", "reverts", "bursts", "coupling", "silo", "commitQuality"}

DEFAULT_WEIGHTS ==
    [churn |-> 27, bugs |-> 27, reverts |-> 14, bursts |-> 9, coupling |-> 9,
     silo |-> 5, commitQuality |-> 9]

TIER_CRITICAL == 75
TIER_HIGH == 50
TIER_MEDIUM == 25

CHURN_FALLBACK  == [weightedScore |-> 0, commitCount |-> 0, rawScore |-> 0]
BUG_FALLBACK    == [bugScore |-> 0, bugCommits |-> 0]
REVERT_FALLBACK == [revertScore |-> 0, revertCount |-> 0]
BURST_FALLBACK  == [burstScore |-> 0, burstIncidents |-> 0]
SILO_FALLBACK   == [topAuthor |-> "unknown", topAuthorPercent |-> 0, authorCount |-> 1]
CQ_FALLBACK     == [wipCommits |-> 0, largeCommitCount |-> 0,
                    commitQualityScore |-> [num |-> 0, den |-> 1]]
DIFF_FALLBACK   == [additions |-> 0, deletions |-> 0]

\* map.get(file) ?? fallback
GetOr(map, file, fallback) == IF file \in DOMAIN map THEN map[file] ELSE fallback

\* a JavaScript number that is an integer or NaN
Num(n) == [nan |-> FALSE, val |-> n]
NaN == [nan |-> TRUE, val |-> 0]

\* { ...DEFAULT_WEIGHTS, ...weights }
MergeWeights(weights) ==
    [key \in WeightKeys |-> IF key \in DOMAIN weights THEN weights[key]
                            ELSE DEFAULT_WEIGHTS[key]]

\* Object.values(w).reduce((a, b) => a + b, 0)
WeightSum(w) ==
    w["churn"] + w["bugs"] + w["reverts"] + w["bursts"] + w["coupling"]
        + w["silo"] + w["commitQuality"]

\* variant: the merged weights divided by the sum of the default weights
NormalizeWeights_DefaultSum(weights) ==
    LET w == MergeWeights(weights)
    IN  [key \in WeightKeys |->
            [nan |-> FALSE, num |-> w[key], den |-> WeightSum(DEFAULT_WEIGHTS)]]

\* w[key] = w[key] / weightSum: the fraction num / den, and NaN for 0 / 0
\* (weights are non-negative, so a zero sum means every weight is zero)
NormalizeWeights(weights) ==
    LET w         == MergeWeights(weights)
        weightSum == WeightSum(w)
    IN  [key \in WeightKeys |->
            IF weightSum = 0 THEN [nan |-> TRUE, num |-> 0, den |-> 1]
            ELSE [nan |-> FALSE, num |-> w[key], den |-> weightSum]]

getTier(score) ==
    IF ~score.nan /\ score.val >= TIER_CRITICAL THEN "CRITICAL"
    ELSE IF ~score.nan /\ score.val >= TIER_HIGH THEN "HIGH"
    ELSE IF ~score.nan /\ score.val >= TIER_MEDIUM THEN "MEDIUM"
    ELSE "LOW"

\* Math.round(churnScore * w.churn + ... + commitQualityScore * w.commitQuality):
\* the normalised weights share the denominator weightSum, the commit quality
\* score has its own denominator
HotspotScore(churnScore, bugFixScore, revertScore, burstScore, couplingScore, siloScore, commitQualityScore, w) ==
    IF \E key \in WeightKeys : w[key].nan THEN NaN
    ELSE LET weightSum == w["churn"].den
             cqDen     == commitQualityScore.den
             integral  == churnScore    * w["churn"].num
                        + bugFixScore   * w["bugs"].num
                        + revertScore   * w["reverts"].num
                        + burstScore    * w["bursts"].num
                        + couplingScore * w["coupling"].num
                        + siloScore     * w["silo"].num
         IN  Num(Round(integral * cqDen + commitQualityScore.num * w["commitQuality"].num,
                       weightSum * cqDen))

ScoreFile(file, input, w, couplingScores) ==
    LET churn   == GetOr(input.churnData, file, CHURN_FALLBACK)
        bugs    == GetOr(input.bugData, file, BUG_FALLBACK)
        reverts == GetOr(input.revertData, file, REVERT_FALLBACK)
        bursts  == GetOr(input.burstData, file, BURST_FALLBACK)
        silo    == GetOr(input.siloData, file, SILO_FALLBACK)
        cq      == GetOr(input.commitQualityData, file, CQ_FALLBACK)
        diff    == GetOr(input.diffStats, file, DIFF_FALLBACK)
        couplingScore == GetOr(couplingScores, file, 0)
        hotspotScore  == HotspotScore(churn.weightedScore, bugs.bugScore,
                                      reverts.revertScore, bursts.burstScore,
                                      couplingScore, silo.topAuthorPercent,
                                      cq.commitQualityScore, w)
    IN  [file               |-> file,
         hotspotScore       |-> hotspotScore,
         churnScore         |-> churn.weightedScore,
         bugFixScore        |-> bugs.bugScore,
         revertScore        |-> reverts.revertScore,
         burstScore         |-> bursts.burstScore,
         couplingScore      |-> couplingScore,
         siloScore          |-> silo.topAuthorPercent,
         commitQualityScore |-> cq.commitQualityScore,
         tier               |-> getTier(hotspotScore),
         details            |->
             [commitCount      |-> churn.commitCount,
              bugCommits       |-> bugs.bugCommits,
              revertCount      |-> reverts.revertCount,
              burstIncidents   |-> bursts.burstIncidents,
              wipCommits       |-> cq.wipCommits,
              largeCommitCount |-> cq.largeCommitCount,
              topAuthor        |-> silo.topAuthor,
              topAuthorPercent |-> silo.topAuthorPercent,
              authorCount      |-> silo.authorCount,
              additions        |-> diff.additions,
              deletions        |-> diff.deletions]]

\* variant: the results sorted by descending score
scoreHotspots_Sorted(files, input) ==
    LET w              == NormalizeWeights(input.weights)
        couplingScores == getCouplingScores(files, input.couplingData)
    IN  StableSort([i \in 1..Len(files) |-> ScoreFile(files[i], input, w, couplingScores)],
                   LAMBDA a, b : /\ ~a.hotspotScore.nan /\ ~b.hotspotScore.nan
                                 /\ b.hotspotScore.val - a.hotspotScore.val < 0)

\* files.map(file => ...)
scoreHotspots(files, input) ==
    LET w              == NormalizeWeights(input.weights)
        couplingScores == getCouplingScores(files, input.couplingData)
    IN  [i \in 1..Len(files) |-> ScoreFile(files[i], input, w, couplingScores)]


\* ------------------------------------------------------------------------
\* History parsers (git/log-parser.ts, git/diff-parser.ts).  What git prints
\* for a repository is a sequence of entries, one per commit:
\* [hash, author, timestamp, subject, files, stats], files the body lines of
\* --name-only and stats the --numstat rows [added, deleted, file], with
\* added = deleted = -1 for the '-' of a binary file.
\* ------------------------------------------------------------------------

\* the position of the first "}" after position i of s, 0 when there is none
FirstClose(s, i) ==
    IF \E j \in (i + 1)..Len(s) : CharAt(s, j) = "}"
    THEN CHOOSE j \in (i + 1)..Len(s) :
             /\ CharAt(s, j) = "}"
             /\ \A k \in (i + 1)..(j - 1) : CharAt(s, k) # "}"
    ELSE 0

\* the positions p of " => " inside s[i+1 .. close-1] that leave a non-empty
\* old part before and a non-empty new part after it
ArrowsIn(s, i, close) ==
    {p \in (i + 2)..(close - 5) : StartsWithAt(s, p, " => ")}

\* /\{[^}]+ => ([^}]+)\}/ matches at the "{" of position i
BraceMatchAt(s, i) ==
    /\ CharAt(s, i) = "{"
    /\ FirstClose(s, i) # 0
    /\ ArrowsIn(s, i, FirstClose(s, i)) # {}

\* raw.replace(/\{[^}]+ => ([^}]+)\}/, '$1'): the leftmost match, its first
\* group greedy, replaced by the new part
ReplaceBrace(raw) ==
    IF \E i \in 1..Len(raw) : BraceMatchAt(raw, i)
    THEN LET i     == CHOOSE x \in 1..Len(raw) :
                          /\ BraceMatchAt(raw, x)
                          /\ \A y \in 1..(x - 1) : ~BraceMatchAt(raw, y)
             close == FirstClose(raw, i)
             p     == SetMax(ArrowsIn(raw, i, close))
         IN  SubSeq(raw, 1, i - 1) \o SubSeq(raw, p + 4, close - 1)
                 \o SubSeq(raw, close + 1, Len(raw))
    ELSE raw

\* s.replace(/\/\//g, '/')
RECURSIVE ReplaceDoubleSlash(_)
ReplaceDoubleSlash(s) ==
    IF Len(s) = 0 THEN ""
    ELSE IF StartsWith(s, "//") THEN "/" \o ReplaceDoubleSlash(SubSeq(s, 3, Len(s)))
    ELSE Head(s) \o ReplaceDoubleSlash(Tail(s))

\* raw.split(' => ').pop(): what follows the last " => "
AfterLastArrow(raw) ==
    LET p == SetMax({i \in 1..Len(raw) : StartsWithAt(raw, i, " => ")})
    IN  SubSeq(raw, p + 4, Len(raw))

\* normalizeFilename of the log parser; the result "" stands for null and for
\* the empty string, both of which `if (file)` drops
normalizeFilename(raw) ==
    IF Includes(raw, "{") /\ Includes(raw, "=>")
    THEN LET normalized == ReplaceDoubleSlash(ReplaceBrace(raw))
         IN  IF ~Includes(normalized, "{") THEN trim(normalized) ELSE ""
    ELSE IF Includes(raw, " => ") THEN trim(AfterLastArrow(raw))
    ELSE raw

\* variant: the raw name kept as it is printed
normalizeNumstatFilename_Raw(raw) == trim(raw)

\* normalizeNumstatFilename of the numstat parser
normalizeNumstatFilename(raw) ==
    IF Includes(raw, "{") /\ Includes(raw, "=>")
    THEN LET normalized == ReplaceDoubleSlash(ReplaceBrace(raw))
         IN  IF Includes(normalized, "{") THEN "" ELSE trim(normalized)
    ELSE IF Includes(raw, " => ") THEN trim(AfterLastArrow(raw))
    ELSE trim(raw)

\* the body lines of one commit: current.files.push(file) for every line whose
\* normalised name is not empty
CommitFiles(lines) ==
    LET names == [i \in 1..Len(lines) |-> normalizeFilename(trim(lines[i]))]
    IN  SelectIdx(names, LAMBDA i : trim(lines[i]) # "" /\ names[i] # "")

\* parseLog when git log succeeds
parseLog(entries) ==
    [i \in 1..Len(entries) |->
        [hash      |-> entries[i].hash,
         author    |-> entries[i].author,
         timestamp |-> entries[i].timestamp,
         subject   |-> entries[i].subject,
         files     |-> CommitFiles(entries[i].files)]]

\* the values of the decimal digits
DigitValue ==
    ("0" :> 0) @@ ("1" :> 1) @@ ("2" :> 2) @@ ("3" :> 3) @@ ("4" :> 4)
        @@ ("5" :> 5) @@ ("6" :> 6) @@ ("7" :> 7) @@ ("8" :> 8) @@ ("9" :> 9)

\* the number of leading decimal digits of s
RECURSIVE DigitPrefix(_)
DigitPrefix(s) ==
    IF Len(s) > 0 /\ Head(s) \in DOMAIN DigitValue THEN 1 + DigitPrefix(Tail(s)) ELSE 0

\* the value of a string of decimal digits
RECURSIVE DigitsValue(_)
DigitsValue(s) ==
    IF Len(s) = 0 THEN 0
    ELSE 10 * DigitsValue(SubSeq(s, 1, Len(s) - 1)) + DigitValue[CharAt(s, Len(s))]

\* parseInt(s, 10): leading white space and a sign are skipped, the digits up
\* to the first other character are read, and there is no number (NaN) when
\* no digit is found
parseInt(s) ==
    LET t      == trimStart(s)
        signed == Len(t) > 0 /\ Head(t) \in {"-", "+"}
        body   == IF signed THEN Tail(t) ELSE t
        n      == DigitPrefix(body)
        value  == DigitsValue(SubSeq(body, 1, n))
    IN  IF n = 0 THEN NaN
        ELSE Num(IF signed /\ Head(t) = "-" THEN 0 - value ELSE value)

\* Array.prototype.join
RECURSIVE join(_, _)
join(parts, sep) ==
    IF Len(parts) = 0 THEN ""
    ELSE IF Len(parts) = 1 THEN parts[1]
    ELSE parts[1] \o sep \o join(Tail(parts), sep)

\* parts[k] ?? dflt, k counted from 0
PartOr(parts, k, dflt) == IF k + 1 <= Len(parts) THEN parts[k + 1] ELSE dflt

\* the Commit that a header line opens; its timestamp is the number or NaN
\* that parseInt gives
HeaderCommit(trimmed) ==
    LET parts == split(trimmed, "|")
    IN  [hash      |-> PartOr(parts, 1, ""),
         author    |-> PartOr(parts, 2, ""),
         timestamp |-> parseInt(PartOr(parts, 3, "0")),
         subject   |-> join(SubSeq(parts, 5, Len(parts)), "|"),
         files     |-> <<>>]

\* the loop of parseCommitOutput over the first n lines: the commits pushed so
\* far and `current` (<<>> is null, <<c>> the open commit c)
RECURSIVE ScanLines(_, _)
ScanLines(lines, n) ==
    IF n = 0 THEN [commits |-> <<>>, current |-> <<>>]
    ELSE LET st      == ScanLines(lines, n - 1)
             trimmed == trim(lines[n])
         IN  IF StartsWith(trimmed, "COMMIT|")
             THEN [commits |-> st.commits \o st.current,
                   current |-> <<HeaderCommit(trimmed)>>]
             ELSE IF trimmed # "" /\ st.current # <<>>
             THEN LET file == normalizeFilename(trimmed)
                  IN  IF file # ""
                      THEN [st EXCEPT !.current[1].files = Append(@, file)]
                      ELSE st
             ELSE st

\* variant: the commit still open at the end of the output is not pushed
parseCommitOutput_NoFlush(output) ==
    LET lines == split(output, "\n")
    IN  ScanLines(lines, Len(lines)).commits

\* parseCommitOutput: the commits of the text that git log prints
parseCommitOutput(output) ==
    LET lines == split(output, "\n")
        end   == ScanLines(lines, Len(lines))
    IN  end.commits \o end.current

\* the --numstat rows of all commits, in output order
NumstatRows(entries) ==
    LET RECURSIVE All(_)
        All(k) == IF k > Len(entries) THEN <<>> ELSE entries[k].stats \o All(k + 1)
    IN  All(1)

\* parseDiff when git log --numstat succeeds
parseDiff(entries) ==
    LET rows == NumstatRows(entries)
        RECURSIVE Acc(_)
        Acc(n) ==
            IF n = 0 THEN [x \in {} |-> DIFF_FALLBACK]
            ELSE LET stats == Acc(n - 1)
                     row   == rows[n]
                     name  == IF row.file = "" THEN "" ELSE normalizeNumstatFilename(row.file)
                 IN  IF row.added < 0 \/ row.deleted < 0 \/ name = "" THEN stats
                     ELSE [x \in DOMAIN stats \cup {name} |->
                              IF x = name
                              THEN [additions |-> GetOr(stats, name, DIFF_FALLBACK).additions
                                                     + row.added,
                                    deletions |-> GetOr(stats, name, DIFF_FALLBACK).deletions
                                                     + row.deleted]
                              ELSE stats[x]]
    IN  Acc(Len(rows))

\* [...allFiles] of runAnalysis: the distinct paths of the commits in order of
\* first occurrence
AllFiles(commitList) ==
    LET t == Touches(commitList)
    IN  SelectIdx(t, LAMBDA i : \A j \in 1..(i - 1) : t[j].file # t[i].file)

AllFileNames(commitList) ==
    LET a == AllFiles(commitList) IN [i \in 1..Len(a) |-> a[i].file]


\* ------------------------------------------------------------------------
\* Bounded inputs
\* ------------------------------------------------------------------------

MaxCommits == 3
MaxRepos == 2
MaxTopN == 2
MaxFiles == 2
MaxBurstLen == 4

Hour(h) == h * 3600

Entry(hash, author, hour, subject, files) ==
    [hash |-> hash, author |-> author, timestamp |-> Hour(hour), subject |-> subject,
     files |-> files,
     stats |-> [i \in 1..Len(files) |-> [added |-> 2, deleted |-> 1, file |-> files[i]]]]

EntryInitial == Entry("c1", "ann@x.io", 0, "Initial commit", <<"src/a.ts", "package.json">>)
EntryFix     == Entry("c2", "ann@x.io", 1, "fix crash in parser", <<"src/a.ts", "src/b.ts">>)
EntryRevert  == Entry("c3", "bob@x.io", 2, "Revert fix crash in parser",
                      <<"src/b.ts", "src/a.ts", "lib/c.ts">>)
EntryWip     == Entry("c4", "bob@x.io", 30, "wip", <<"lib/c.ts">>)
EntryConfig  == Entry("c5", "ann@x.io", 31, "add config",
                      <<".env", ".env.production", "src/app.ts">>)
EntryKey     == Entry("c6", "ann@x.io", 32, "add key",
                      <<"server.key", "certs/cert.pem", "dist/server.key">>)
EntryNoise   == Entry("c7", "bob@x.io", 33, "update deps", <<"package.json", "yarn.lock">>)
EntrySecrets == Entry("c8", "bob@x.io", 34, "rotate secrets",
                      <<"config/secrets.yml", ".envrc", "docs/keynote.md", ".env">>)
\* a commit that touches nothing but build output, a vendored dot-env file and
\* a manifest
EntryDist    == Entry("c10", "bob@x.io", 35, "add build output",
                      <<"dist/server.key", "node_modules/x/.env", "package.json">>)
\* commits whose changes git prints as renames
EntryRenamePlain == Entry("c11", "ann@x.io", 4, "rename old to new", <<"old.ts => new.ts">>)
EntryRenameDir   == Entry("c12", "ann@x.io", 5, "move directory",
                          <<"src/{old-dir => new-dir}/file.js", "src/a.ts">>)
EntryRenameAdd   == Entry("c13", "bob@x.io", 6, "add directory level",
                          <<"src/{ => new}/f.js", "src/b.ts">>)
EntryRenameDrop  == Entry("c14", "bob@x.io", 7, "drop directory level",
                          <<"src/{old => }/g.js">>)
\* a commit whose file list names a path twice
EntryTwice   == Entry("c9", "ann@x.io", 3, "rename helpers",
                      <<"src/a.ts", "src/a.ts", "src/b.ts">>)

\* all sequences of at most n elements of S
SeqsUpTo(S, n) == UNION {[1..k -> S] : k \in 0..n}

\* ------------------------------------------------------------------------
\* The program: main's loop over the repositories and runAnalysis
\* (bin/git-scanline.ts), and direct calls of the analyzers and the scorer
\* (tests/integration.test.ts)
\* ------------------------------------------------------------------------

VARIABLES
    repos,              \* findGitRepos(...): per repository, what git prints for it
    config,             \* RunConfig: since, pathFilter, topN, bugsOnly, weights
    now,                \* the clock read by analyzeChurn, in seconds
    inputFiles,         \* the path list given to a direct call of filterFiles
    logOutput,          \* the text given to a direct call of parseCommitOutput
    pc,                 \* "loop": at the head of main's for loop, "run": inside
                        \* runAnalysis, "done": after the loop, "call": direct calls
    ri,                 \* index of the repository of the current iteration
    step,               \* the step of runAnalysis about to run (1..9)
    commits,            \* locals of runAnalysis
    securityRisks,
    diffStats,
    filteredFiles,
    churnData,
    bugData,
    revertData,
    burstData,
    couplingData,
    siloData,
    commitQualityData,
    w,                  \* the normalised weights scoreHotspots used
    scored,             \* what scoreHotspots returned
    outcomes            \* per iteration of main's loop: what became of the repository

vars == <<repos, config, now, inputFiles, logOutput, pc, ri, step, commits,
          securityRisks, diffStats, filteredFiles, churnData, bugData, revertData, burstData, couplingData,
          siloData, commitQualityData, w, scored, outcomes>>

locals == <<commits, securityRisks, diffStats, filteredFiles, churnData, bugData,
            revertData, burstData, couplingData, siloData, commitQualityData, w, scored>>

inputs == <<repos, config, now, inputFiles, logOutput>>

NoLocals ==
    /\ commits = <<>> /\ securityRisks = <<>> /\ diffStats = <<>>
    /\ filteredFiles = <<>> /\ churnData = <<>> /\ bugData = <<>>
    /\ revertData = <<>> /\ burstData = <<>> /\ couplingData = <<>>
    /\ siloData = <<>> /\ commitQualityData = <<>> /\ w = <<>> /\ scored = <<>>

ResetLocals ==
    /\ commits' = <<>> /\ securityRisks' = <<>> /\ diffStats' = <<>>
    /\ filteredFiles' = <<>> /\ churnData' = <<>> /\ bugData' = <<>>
    /\ revertData' = <<>> /\ burstData' = <<>> /\ couplingData' = <<>>
    /\ siloData' = <<>> /\ commitQualityData' = <<>> /\ w' = <<>> /\ scored' = <<>>

\* variant: a failure leaves the loop
EndIteration_Abort(outcome) ==
    /\ outcomes' = Append(outcomes, [repo |-> ri] @@ outcome)
    /\ ri' = ri + 1
    /\ pc' = IF outcome.kind = "failed" THEN "done" ELSE "loop"
    /\ step' = 0

\* the end of one iteration of main's for loop
EndIteration(outcome) ==
    /\ outcomes' = Append(outcomes, [repo |-> ri] @@ outcome)
    /\ ri' = ri + 1
    /\ pc' = "loop"
    /\ step' = 0

\* for (const repoPath of repos) { try { await runAnalysis(...) } ... }
NextRepo ==
    /\ pc = "loop"
    /\ ri <= Len(repos)
    /\ pc' = "run"
    /\ step' = 1
    /\ ResetLocals
    /\ UNCHANGED <<inputs, ri, outcomes>>

LoopEnd ==
    /\ pc = "loop"
    /\ ri > Len(repos)
    /\ pc' = "done"
    /\ UNCHANGED <<inputs, ri, step, locals, outcomes>>

\* step 1: parseLog; no commits: warn and return
ParseLog ==
    /\ pc = "run" /\ step = 1
    /\ commits' = parseLog(repos[ri])
    /\ IF Len(commits') = 0
       THEN EndIteration([kind |-> "no-commits"])
       ELSE step' = 2 /\ UNCHANGED <<pc, ri, outcomes>>
    /\ UNCHANGED <<inputs, securityRisks, diffStats, filteredFiles, churnData, bugData,
                   revertData, burstData, couplingData, siloData, commitQualityData,
                   w, scored>>

\* step 1: execSync fails, parseLog throws; main's catch reports the failure
ParseLogThrows ==
    /\ pc = "run" /\ step = 1
    /\ EndIteration([kind |-> "failed", message |-> "git log failed"])
    /\ UNCHANGED <<inputs, locals>>

\* step 2 (in runAnalysis and in a direct call)
ScanSecurity ==
    /\ pc \in {"run", "call"} /\ step = 2
    /\ securityRisks' = analyzeSecurityRisks(commits)
    /\ step' = 3
    /\ UNCHANGED <<inputs, pc, ri, outcomes, commits, diffStats, filteredFiles, churnData,
                   bugData, revertData, burstData, couplingData, siloData,
                   commitQualityData, w, scored>>

\* step 3
ParseDiff ==
    /\ pc = "run" /\ step = 3
    /\ diffStats' = parseDiff(repos[ri])
    /\ step' = 4
    /\ UNCHANGED <<inputs, pc, ri, outcomes, commits, securityRisks, filteredFiles,
                   churnData, bugData, revertData, burstData, couplingData, siloData,
                   commitQualityData, w, scored>>

ParseDiffThrows ==
    /\ pc = "run" /\ step = 3
    /\ EndIteration([kind |-> "failed", message |-> "git numstat failed"])
    /\ UNCHANGED <<inputs, locals>>

\* step 4: filterFiles; nothing left: warn and return
FilterFiles ==
    /\ pc = "run" /\ step = 4
    /\ filteredFiles' = filterFiles(AllFileNames(commits), config.pathFilter)
    /\ IF Len(filteredFiles') = 0
       THEN EndIteration([kind |-> "no-files"])
       ELSE step' = 5 /\ UNCHANGED <<pc, ri, outcomes>>
    /\ UNCHANGED <<inputs, commits, securityRisks, diffStats, churnData, bugData,
                   revertData, burstData, couplingData, siloData, commitQualityData,
                   w, scored>>

\* step 5 (in runAnalysis and in a direct call)
Churn ==
    /\ pc \in {"run", "call"} /\ step = 5
    /\ churnData' = analyzeChurn(commits, filteredFiles, now)
    /\ step' = 6
    /\ UNCHANGED <<inputs, pc, ri, outcomes, commits, securityRisks, diffStats,
                   filteredFiles, bugData, revertData, burstData, couplingData, siloData,
                   commitQualityData, w, scored>>

\* step 6
BugsAndReverts ==
    /\ pc \in {"run", "call"} /\ step = 6
    /\ bugData' = analyzeBugCorrelation(commits, filteredFiles)
    /\ revertData' = analyzeReverts(commits, filteredFiles)
    /\ step' = 7
    /\ UNCHANGED <<inputs, pc, ri, outcomes, commits, securityRisks, diffStats,
                   filteredFiles, churnData, burstData, couplingData, siloData,
                   commitQualityData, w, scored>>

\* variant: the burst detector sorts the commits themselves by timestamp
BurstsAndCoupling_SortsCommits ==
    /\ pc \in {"run", "call"} /\ step = 7
    /\ burstData' = analyzeBursts(commits, filteredFiles)
    /\ couplingData' = analyzeCoupling(commits, filteredFiles)
    /\ commits' = StableSort(commits, LAMBDA a, b : a.timestamp - b.timestamp < 0)
    /\ step' = 8
    /\ UNCHANGED <<inputs, pc, ri, outcomes, securityRisks, diffStats,
                   filteredFiles, churnData, bugData, revertData, siloData,
                   commitQualityData, w, scored>>

\* step 7
BurstsAndCoupling ==
    /\ pc \in {"run", "call"} /\ step = 7
    /\ burstData' = analyzeBursts(commits, filteredFiles)
    /\ couplingData' = analyzeCoupling(commits, filteredFiles)
    /\ step' = 8
    /\ UNCHANGED <<inputs, pc, ri, outcomes, commits, securityRisks, diffStats,
                   filteredFiles, churnData, bugData, revertData, siloData,
                   commitQualityData, w, scored>>

\* step 8
AuthorsAndQuality ==
    /\ pc \in {"run", "call"} /\ step = 8
    /\ siloData' = analyzeAuthors(commits, filteredFiles)
    /\ commitQualityData' = analyzeCommitQuality(commits, filteredFiles)
    /\ step' = 9
    /\ UNCHANGED <<inputs, pc, ri, outcomes, commits, securityRisks, diffStats,
                   filteredFiles, churnData, bugData, revertData, burstData,
                   couplingData, w, scored>>

\* variant: the runs after the first score with the churn weight alone
ScoringInput_Stateful ==
    [churnData |-> churnData, bugData |-> bugData, revertData |-> revertData,
     burstData |-> burstData, couplingData |-> couplingData, siloData |-> siloData,
     commitQualityData |-> commitQualityData, diffStats |-> diffStats,
     weights |-> IF Len(outcomes) = 0 THEN config.weights
                 ELSE [key \in WeightKeys |-> IF key = "churn" THEN 100 ELSE 0]]

ScoringInput ==
    [churnData |-> churnData, bugData |-> bugData, revertData |-> revertData,
     burstData |-> burstData, couplingData |-> couplingData, siloData |-> siloData,
     commitQualityData |-> commitQualityData, diffStats |-> diffStats,
     weights |-> config.weights]

\* b.hotspotScore - a.hotspotScore < 0 (a difference with NaN is NaN, which
\* sort treats as 0)
ScoreBefore(a, b) ==
    /\ ~a.hotspotScore.nan /\ ~b.hotspotScore.nan
    /\ b.hotspotScore.val - a.hotspotScore.val < 0

\* variant: the slice taken before the sort
RankResults_SliceFirst(all, topN, bugsOnly) ==
    LET top == StableSort(SliceTo(all, topN), ScoreBefore)
    IN  IF bugsOnly THEN SelectIdx(top, LAMBDA i : top[i].details.bugCommits > 0)
        ELSE top

\* variant: the --bugs-only filter applied before the slice
RankResults_FilterFirst(all, topN, bugsOnly) ==
    LET sorted == StableSort(all, ScoreBefore)
        kept   == IF bugsOnly
                  THEN SelectIdx(sorted, LAMBDA i : sorted[i].details.bugCommits > 0)
                  ELSE sorted
    IN  SliceTo(kept, topN)

\* .sort(...).slice(0, config.topN), then the --bugs-only filter
RankResults(all, topN, bugsOnly) ==
    LET top == SliceTo(StableSort(all, ScoreBefore), topN)
    IN  IF bugsOnly THEN SelectIdx(top, LAMBDA i : top[i].details.bugCommits > 0)
        ELSE top

\* couplingData.filter(...).sort(...).slice(0, 10)
TopCouplings(couplings, files) ==
    LET both == SelectIdx(couplings, LAMBDA i : /\ couplings[i].fileA \in Range(files)
                                                /\ couplings[i].fileB \in Range(files))
    IN  SliceTo(StableSort(both, LAMBDA a, b : b.coChanges - a.coChanges < 0), 10)

BuildReport(all) ==
    [meta |-> [since       |-> IF config.since = "" THEN "all history" ELSE config.since,
               commitCount |-> Len(commits),
               fileCount   |-> Len(filteredFiles)],
     results       |-> RankResults(all, config.topN, config.bugsOnly),
     couplings     |-> TopCouplings(couplingData, filteredFiles),
     securityRisks |-> securityRisks]

\* step 9 of runAnalysis: score, rank, build and hand over the report
ScoreAndReport ==
    /\ pc = "run" /\ step = 9
    /\ w' = NormalizeWeights(config.weights)
    /\ scored' = scoreHotspots(filteredFiles, ScoringInput)
    /\ EndIteration([kind |-> "report", report |-> BuildReport(scored')])
    /\ UNCHANGED <<inputs, commits, securityRisks, diffStats, filteredFiles, churnData,
                   bugData, revertData, burstData, couplingData, siloData,
                   commitQualityData>>

\* a direct call of scoreHotspots with the analyzers' outputs
CallScore ==
    /\ pc = "call" /\ step = 9
    /\ w' = NormalizeWeights(config.weights)
    /\ scored' = scoreHotspots(filteredFiles, ScoringInput)
    /\ step' = 10
    /\ UNCHANGED <<inputs, pc, ri, outcomes, commits, securityRisks, diffStats,
                   filteredFiles, churnData, bugData, revertData, burstData,
                   couplingData, siloData, commitQualityData>>

\* a direct call of scoreHotspots with every metric map empty
CallScoreEmpty ==
    /\ pc = "call" /\ step = 5
    /\ w' = NormalizeWeights(config.weights)
    /\ scored' = scoreHotspots(filteredFiles,
                     [churnData |-> <<>>, bugData |-> <<>>, revertData |-> <<>>,
                      burstData |-> <<>>, couplingData |-> <<>>, siloData |-> <<>>,
                      commitQualityData |-> <<>>, diffStats |-> <<>>,
                      weights |-> config.weights])
    /\ step' = 11
    /\ UNCHANGED <<inputs, pc, ri, outcomes, commits, securityRisks, diffStats,
                   filteredFiles, churnData, bugData, revertData, burstData,
                   couplingData, siloData, commitQualityData>>


\* ------------------------------------------------------------------------
\* Specifications
\* ------------------------------------------------------------------------

NoOverride == [key \in {} |-> 0]
ZeroWeights == [key \in WeightKeys |-> 0]
OnlyWeight(k) == [key \in WeightKeys |-> IF key = k THEN 100 ELSE 0]

\* what --weight-* can give main: all seven values
CliWeights == {DEFAULT_WEIGHTS, ZeroWeights, OnlyWeight("coupling"), OnlyWeight("silo")}

\* what a caller can give scoreHotspots: a partial override
CallWeights == CliWeights \cup {NoOverride, [churn |-> 100], [silo |-> 0, bugs |-> 50]}

Configs(pathFilters, weightSets) ==
    [since : {""}, pathFilter : pathFilters, topN : 0..MaxTopN, bugsOnly : BOOLEAN,
     weights : weightSets]

Nows == {Hour(40), Hour(40) + 2000 * 86400}

InitMain(repoLists, configs, nows) ==
    /\ repos \in repoLists
    /\ config \in configs
    /\ now \in nows
    /\ inputFiles = <<>>
    /\ logOutput = ""
    /\ pc = "loop" /\ ri = 1 /\ step = 0
    /\ NoLocals
    /\ outcomes = <<>>

NextMain ==
    \/ NextRepo \/ LoopEnd
    \/ ParseLog \/ ParseLogThrows
    \/ ScanSecurity
    \/ ParseDiff \/ ParseDiffThrows
    \/ FilterFiles
    \/ Churn \/ BugsAndReverts \/ BurstsAndCoupling \/ AuthorsAndQuality
    \/ ScoreAndReport

\* one repository, every history of at most MaxCommits commits
MainEntries == {EntryInitial, EntryFix, EntryRevert, EntryKey, EntryNoise}

Init ==
    InitMain({<<h>> : h \in SeqsUpTo(MainEntries, MaxCommits)},
             Configs({"", "src"}, {DEFAULT_WEIGHTS, OnlyWeight("silo"), ZeroWeights}),
             {Hour(40)})

Spec == Init /\ [][NextMain]_vars

\* several repositories
RepoMenu ==
    {<<>>, <<EntryNoise>>, <<EntryInitial, EntryFix, EntryRevert>>, <<EntryKey, EntryWip>>,
     <<EntryDist>>}

InitMulti ==
    InitMain(UNION {[1..n -> RepoMenu] : n \in 1..MaxRepos},
             {c \in Configs({""}, {DEFAULT_WEIGHTS}) : c.topN = MaxTopN /\ ~c.bugsOnly},
             {Hour(40)})

SpecMulti == InitMulti /\ [][NextMain]_vars

\* direct calls: analyzers and scorer on any commit list and any file list
CallEntries == {EntryInitial, EntryFix, EntryRevert, EntryWip, EntryTwice}

CallFiles ==
    {<<"src/a.ts", "src/b.ts", "lib/c.ts">>, <<"lib/c.ts", "src/a.ts">>,
     <<"src/b.ts", "src/zz.ts">>, <<"src/zz.ts">>}

InitCall ==
    /\ repos = <<>>
    /\ config \in {c \in Configs({""}, CallWeights) : c.topN = 0 /\ ~c.bugsOnly}
    /\ now \in Nows
    /\ inputFiles = <<>>
    /\ logOutput = ""
    /\ pc = "call" /\ ri = 0 /\ step = 5
    /\ commits \in {parseLog(h) : h \in SeqsUpTo(CallEntries, MaxCommits)}
    /\ filteredFiles \in CallFiles
    /\ securityRisks = <<>> /\ diffStats = <<>> /\ churnData = <<>> /\ bugData = <<>>
    /\ revertData = <<>> /\ burstData = <<>> /\ couplingData = <<>>
    /\ siloData = <<>> /\ commitQualityData = <<>> /\ w = <<>> /\ scored = <<>>
    /\ outcomes = <<>>

NextCall ==
    \/ Churn \/ BugsAndReverts \/ BurstsAndCoupling \/ AuthorsAndQuality
    \/ CallScore \/ CallScoreEmpty

SpecCall == InitCall /\ [][NextCall]_vars

\* one repository whose history holds renames
RenameEntries == {EntryRenamePlain, EntryRenameDir, EntryRenameAdd, EntryRenameDrop}

InitRename ==
    InitMain({<<h>> : h \in SeqsUpTo(RenameEntries, MaxCommits)},
             {c \in Configs({""}, {DEFAULT_WEIGHTS}) : c.topN = MaxTopN /\ ~c.bugsOnly},
             {Hour(40)})

SpecRename == InitRename /\ [][NextMain]_vars

\* a direct call of analyzeBursts on the commits of one file, given by their
\* hour offsets in commit order
BurstCommits(hours) ==
    [i \in 1..Len(hours) |->
        [hash |-> "h", author |-> "ann@x.io", timestamp |-> Hour(hours[i]),
         subject |-> "touch f", files |-> <<"src/f.ts">>]]

BurstHours == {0, 1, 24, 25, 49}

BurstLists ==
    SeqsUpTo(BurstHours, MaxBurstLen)
        \cup {<<0, 1, 2, 30, 31, 32, 33>>, <<33, 0, 31, 1, 32, 2, 30>>,
              <<33, 32, 31, 30, 2, 1, 0>>}

InitBurst ==
    /\ repos = <<>>
    /\ config \in {c \in Configs({""}, {DEFAULT_WEIGHTS}) : c.topN = 0 /\ ~c.bugsOnly}
    /\ now = Hour(40)
    /\ inputFiles = <<>>
    /\ logOutput = ""
    /\ pc = "call" /\ ri = 0 /\ step = 7
    /\ commits \in {BurstCommits(hours) : hours \in BurstLists}
    /\ filteredFiles \in {<<"src/f.ts">>, <<"src/f.ts", "src/g.ts">>}
    /\ securityRisks = <<>> /\ diffStats = <<>>
    /\ churnData = <<>> /\ bugData = <<>> /\ revertData = <<>> /\ burstData = <<>>
    /\ couplingData = <<>> /\ siloData = <<>> /\ commitQualityData = <<>>
    /\ w = <<>> /\ scored = <<>> /\ outcomes = <<>>

NextBurst == BurstsAndCoupling

SpecBurst == InitBurst /\ [][NextBurst]_vars

\* a direct call of filterFiles: filterFiles(inputFiles, scope)
CallFilter ==
    /\ pc = "call" /\ step = 4
    /\ filteredFiles' = filterFiles(inputFiles, config.pathFilter)
    /\ step' = 5
    /\ UNCHANGED <<inputs, pc, ri, outcomes, commits, securityRisks, diffStats, churnData,
                   bugData, revertData, burstData, couplingData, siloData,
                   commitQualityData, w, scored>>

\* filterFiles called on its own result
CallFilterAgain ==
    /\ pc = "call" /\ step = 5
    /\ filteredFiles' = filterFiles(filteredFiles, config.pathFilter)
    /\ step' = 6
    /\ UNCHANGED <<inputs, pc, ri, outcomes, commits, securityRisks, diffStats, churnData,
                   bugData, revertData, burstData, couplingData, siloData,
                   commitQualityData, w, scored>>

FilterPaths ==
    {"", "src", "src/app.ts", "src2/a.ts", "tests/foo.ts", "package.json",
     "src/package.json", "node_modules/lodash/index.js", "src/vendor/x.ts",
     "src/app.min.js", "src/Logo.PNG", "src/build.ts", "src/dist"}

InitFilter ==
    /\ repos = <<>>
    /\ config \in {c \in Configs({"", "src", "src/", "tests"}, {DEFAULT_WEIGHTS}) :
                       c.topN = 0 /\ ~c.bugsOnly}
    /\ now = Hour(40)
    /\ inputFiles \in SeqsUpTo(FilterPaths, MaxFiles)
    /\ logOutput = ""
    /\ pc = "call" /\ ri = 0 /\ step = 4
    /\ commits = <<>> /\ securityRisks = <<>> /\ diffStats = <<>> /\ filteredFiles = <<>>
    /\ churnData = <<>> /\ bugData = <<>> /\ revertData = <<>> /\ burstData = <<>>
    /\ couplingData = <<>> /\ siloData = <<>> /\ commitQualityData = <<>>
    /\ w = <<>> /\ scored = <<>> /\ outcomes = <<>>

NextFilter == CallFilter \/ CallFilterAgain

SpecFilter == InitFilter /\ [][NextFilter]_vars

\* a direct call of parseCommitOutput on the text git log printed
CallParse ==
    /\ pc = "call" /\ step = 1
    /\ commits' = parseCommitOutput(logOutput)
    /\ step' = 2
    /\ UNCHANGED <<inputs, pc, ri, outcomes, securityRisks, diffStats, filteredFiles,
                   churnData, bugData, revertData, burstData, couplingData, siloData,
                   commitQualityData, w, scored>>

MaxLines == 3

\* lines of git log --format="COMMIT|%H|%ae|%ad|%s" --name-only: headers (one
\* with a "|" in its subject and white space around it, one cut short), file
\* names, a blank line, a line of spaces, a rename, and a rename expression
\* whose brace is not closed
LogLines ==
    {"COMMIT|c1|ann@x.io|3600|Initial commit",
     " COMMIT|c2|bob@x.io|7200|fix a|b ",
     "COMMIT|c3",
     "src/a.ts", "  src/b.ts", "", "   ", "old.ts => new.ts", "src/{a => b"}

LogTexts ==
    {join(lines, "\n") : lines \in SeqsUpTo(LogLines, MaxLines)}
        \cup {join(<<"src/a.ts", "COMMIT|c1|ann@x.io|3600|Initial commit", "",
                     "src/a.ts", "src/{a => b", "COMMIT|c3",
                     " COMMIT|c2|bob@x.io|7200|fix a|b ", "old.ts => new.ts", "src/b.ts">>,
                   "\n")}

InitParse ==
    /\ repos = <<>>
    /\ config \in {c \in Configs({""}, {DEFAULT_WEIGHTS}) : c.topN = 0 /\ ~c.bugsOnly}
    /\ now = Hour(40)
    /\ inputFiles = <<>>
    /\ logOutput \in LogTexts
    /\ pc = "call" /\ ri = 0 /\ step = 1
    /\ commits = <<>> /\ securityRisks = <<>> /\ diffStats = <<>> /\ filteredFiles = <<>>
    /\ churnData = <<>> /\ bugData = <<>> /\ revertData = <<>> /\ burstData = <<>>
    /\ couplingData = <<>> /\ siloData = <<>> /\ commitQualityData = <<>>
    /\ w = <<>> /\ scored = <<>> /\ outcomes = <<>>

NextParse == CallParse

SpecParse == InitParse /\ [][NextParse]_vars

\* a direct call of analyzeCoupling (with analyzeBursts) on histories that hold
\* a commit of 21 files and a commit that names a path twice
MaxCouplingCommits == 4

BigFiles ==
    <<"src/a.ts", "src/b.ts", "m/f03.ts", "m/f04.ts", "m/f05.ts", "m/f06.ts", "m/f07.ts",
      "m/f08.ts", "m/f09.ts", "m/f10.ts", "m/f11.ts", "m/f12.ts", "m/f13.ts", "m/f14.ts",
      "m/f15.ts", "m/f16.ts", "m/f17.ts", "m/f18.ts", "m/f19.ts", "m/f20.ts", "m/f21.ts">>

EntryBig == Entry("c15", "ann@x.io", 8, "reformat everything", BigFiles)

CouplingEntries == {EntryFix, EntryRevert, EntryBig, EntryTwice}

InitCoupling ==
    /\ repos = <<>>
    /\ config \in {c \in Configs({""}, {DEFAULT_WEIGHTS}) : c.topN = 0 /\ ~c.bugsOnly}
    /\ now = Hour(40)
    /\ inputFiles = <<>>
    /\ logOutput = ""
    /\ pc = "call" /\ ri = 0 /\ step = 7
    /\ commits \in {parseLog(h) : h \in SeqsUpTo(CouplingEntries, MaxCouplingCommits)}
    /\ filteredFiles \in {BigFiles, <<"src/a.ts", "src/b.ts", "lib/c.ts">>}
    /\ securityRisks = <<>> /\ diffStats = <<>>
    /\ churnData = <<>> /\ bugData = <<>> /\ revertData = <<>> /\ burstData = <<>>
    /\ couplingData = <<>> /\ siloData = <<>> /\ commitQualityData = <<>>
    /\ w = <<>> /\ scored = <<>> /\ outcomes = <<>>

NextCoupling == BurstsAndCoupling

SpecCoupling == InitCoupling /\ [][NextCoupling]_vars

\* a direct call of analyzeReverts (with analyzeBugCorrelation) on commits
\* given by their subjects; every commit touches src/a.ts, the last subject's
\* commit src/b.ts as well
RevertSubjects ==
    {"Revert fix crash in parser", "  revert: parser  ", "REVERT", "Reverted the parser fix",
     "reverts c2", "revert_tmp", "unrevert parser", "fix revert of parser", "Initial commit"}

SubjectCommit(subject) ==
    [hash |-> "h", author |-> "ann@x.io", timestamp |-> Hour(1), subject |-> subject,
     files |-> IF subject = "Initial commit" THEN <<"src/a.ts", "src/b.ts">>
               ELSE <<"src/a.ts">>]

InitRevert ==
    /\ repos = <<>>
    /\ config \in {c \in Configs({""}, {DEFAULT_WEIGHTS}) : c.topN = 0 /\ ~c.bugsOnly}
    /\ now = Hour(40)
    /\ inputFiles = <<>>
    /\ logOutput = ""
    /\ pc = "call" /\ ri = 0 /\ step = 6
    /\ commits \in {[k \in 1..Len(s) |-> SubjectCommit(s[k])] :
                       s \in SeqsUpTo(RevertSubjects, MaxCommits)}
    /\ filteredFiles \in {<<"src/a.ts">>, <<"src/b.ts", "src/a.ts">>}
    /\ securityRisks = <<>> /\ diffStats = <<>>
    /\ churnData = <<>> /\ bugData = <<>> /\ revertData = <<>> /\ burstData = <<>>
    /\ couplingData = <<>> /\ siloData = <<>> /\ commitQualityData = <<>>
    /\ w = <<>> /\ scored = <<>> /\ outcomes = <<>>

NextRevert == BugsAndReverts

SpecRevert == InitRevert /\ [][NextRevert]_vars

\* a direct call of analyzeCommitQuality (with analyzeAuthors) on histories
\* that hold commits of 30 and 31 source files and a commit of one source file
\* and 30 files of build output; the file list is what filterFiles leaves of
\* the paths of the history
NumberedFiles(dir, n) == [i \in 1..n |-> dir \o "/f" \o ToString(i) \o ".ts"]

EntryThirty    == Entry("c16", "ann@x.io", 9, "move modules to thirty files",
                        NumberedFiles("m", 30))
EntryThirtyOne == Entry("c17", "ann@x.io", 10, "move modules to thirty one files",
                        NumberedFiles("m", 31))
EntryBuild     == Entry("c18", "bob@x.io", 11, "regenerate the build output",
                        <<"src/a.ts">> \o NumberedFiles("dist", 30))

QualityEntries == {EntryFix, EntryThirty, EntryThirtyOne, EntryBuild}

InitQuality ==
    /\ repos = <<>>
    /\ config \in {c \in Configs({""}, {DEFAULT_WEIGHTS}) : c.topN = 0 /\ ~c.bugsOnly}
    /\ now = Hour(40)
    /\ inputFiles = <<>>
    /\ logOutput = ""
    /\ pc = "call" /\ ri = 0 /\ step = 8
    /\ commits \in {parseLog(h) : h \in SeqsUpTo(QualityEntries, MaxCommits)}
    /\ filteredFiles = filterFiles(AllFileNames(commits), "")
    /\ securityRisks = <<>> /\ diffStats = <<>>
    /\ churnData = <<>> /\ bugData = <<>> /\ revertData = <<>> /\ burstData = <<>>
    /\ couplingData = <<>> /\ siloData = <<>> /\ commitQualityData = <<>>
    /\ w = <<>> /\ scored = <<>> /\ outcomes = <<>>

NextQuality == AuthorsAndQuality

SpecQuality == InitQuality /\ [][NextQuality]_vars

\* a direct call of analyzeSecurityRisks on any commit list
ScanEntries == {EntryInitial, EntryConfig, EntryKey, EntrySecrets, EntryRevert}

InitScan ==
    /\ repos = <<>>
    /\ config \in {c \in Configs({""}, {DEFAULT_WEIGHTS}) : c.topN = 0 /\ ~c.bugsOnly}
    /\ now = Hour(40)
    /\ inputFiles = <<>>
    /\ logOutput = ""
    /\ pc = "call" /\ ri = 0 /\ step = 2
    /\ commits \in {parseLog(h) : h \in SeqsUpTo(ScanEntries, MaxCommits)}
    /\ securityRisks = <<>> /\ diffStats = <<>> /\ filteredFiles = <<>>
    /\ churnData = <<>> /\ bugData = <<>> /\ revertData = <<>> /\ burstData = <<>>
    /\ couplingData = <<>> /\ siloData = <<>> /\ commitQualityData = <<>>
    /\ w = <<>> /\ scored = <<>> /\ outcomes = <<>>

NextScan == ScanSecurity

SpecScan == InitScan /\ [][NextScan]_vars


\* ------------------------------------------------------------------------
\* Properties
\* ------------------------------------------------------------------------

\* scoreHotspots has returned (from CallScore or CallScoreEmpty)
Scored == pc = "call" /\ step \in {10, 11}

\* the weight of key after merging the override over the defaults
MergedWeight(key) ==
    IF key \in DOMAIN config.weights THEN config.weights[key] ELSE DEFAULT_WEIGHTS[key]

MergedSum ==
    MergedWeight("churn") + MergedWeight("bugs") + MergedWeight("reverts")
        + MergedWeight("bursts") + MergedWeight("coupling") + MergedWeight("silo")
        + MergedWeight("commitQuality")

\* C1: for any commit sequence, any file list and any non-negative weights
\* with a positive sum (empty metric maps included), every hotspotScore that
\* scoreHotspots returns is an integer between 0 and 100.
C1_HotspotScoreInRange ==
    (Scored /\ MergedSum > 0) =>
        \A i \in 1..Len(scored) :
            /\ ~scored[i].hotspotScore.nan
            /\ scored[i].hotspotScore.val \in 0..100

\* C2: whenever the merged weights have a positive sum, the effective weight
\* of each signal is its merged value divided by the sum of the seven merged
\* values, and the seven effective weights sum to 1.
C2_EffectiveWeights ==
    (Scored /\ MergedSum > 0) =>
        /\ \A key \in WeightKeys :
              /\ ~w[key].nan
              /\ w[key].den > 0
              /\ w[key].den = w["churn"].den
              /\ w[key].num * MergedSum = MergedWeight(key) * w[key].den
        /\ w["churn"].num + w["bugs"].num + w["reverts"].num + w["bursts"].num
              + w["coupling"].num + w["silo"].num + w["commitQuality"].num
           = w["churn"].den

\* a partial override whose merged sum differs from the sum of the defaults
C2_Witness ==
    /\ Scored /\ step = 10
    /\ config.weights = [churn |-> 100]
    /\ Len(scored) > 0
    /\ w["bugs"].num * 173 = 27 * w["bugs"].den

\* C3: when all seven merged weights are zero, scoreHotspots either rejects
\* the weights or scores with the default weights; it never divides by zero
\* and never returns a hotspotScore that is not a number.
C3_ZeroSumHandled ==
    (Scored /\ MergedSum = 0) =>
        /\ \A key \in WeightKeys :
              /\ ~w[key].nan
              /\ w[key].num * 100 = DEFAULT_WEIGHTS[key] * w[key].den
        /\ \A i \in 1..Len(scored) : ~scored[i].hotspotScore.nan

\* C4: for every commit sequence, each commit with any list of touched
\* paths, every normalised score of the analyzers (weightedScore, rawScore,
\* bugScore, revertScore, burstScore, coupling strength, per-file coupling
\* score, topAuthorPercent) is between 0 and 100.
C4_AnalyzerScoresInRange ==
    (pc = "call" /\ step \in {9, 10}) =>
        /\ \A f \in DOMAIN churnData :
              /\ churnData[f].weightedScore \in 0..100
              /\ churnData[f].rawScore \in 0..100
        /\ \A f \in DOMAIN bugData : bugData[f].bugScore \in 0..100
        /\ \A f \in DOMAIN revertData : revertData[f].revertScore \in 0..100
        /\ \A f \in DOMAIN burstData : burstData[f].burstScore \in 0..100
        /\ \A i \in 1..Len(couplingData) : couplingData[i].strength \in 0..100
        /\ \A f \in Range(filteredFiles) :
              getCouplingScores(filteredFiles, couplingData)[f] \in 0..100
        /\ \A f \in DOMAIN siloData : siloData[f].topAuthorPercent \in 0..100

\* C5: the map of each per-file analyzer, and the map of getCouplingScores,
\* has exactly the filtered files as its keys, the files that no commit
\* touches included.
C5_KeySetIsFilteredFiles ==
    (pc = "call" /\ step \in 6..10) =>
        /\ DOMAIN churnData = Range(filteredFiles)
        /\ step >= 7 => /\ DOMAIN bugData = Range(filteredFiles)
                        /\ DOMAIN revertData = Range(filteredFiles)
        /\ step >= 8 => /\ DOMAIN burstData = Range(filteredFiles)
                        /\ DOMAIN getCouplingScores(filteredFiles, couplingData)
                              = Range(filteredFiles)
        /\ step >= 9 => /\ DOMAIN siloData = Range(filteredFiles)
                        /\ DOMAIN commitQualityData = Range(filteredFiles)

\* every analyzer has run on a file list with a file that no commit touches
C5_Witness ==
    /\ pc = "call" /\ step = 9
    /\ Len(commits) > 0
    /\ "src/zz.ts" \in Range(filteredFiles)
    /\ "src/b.ts" \in Range(filteredFiles)
    /\ churnData["src/zz.ts"].commitCount = 0
    /\ churnData["src/b.ts"].commitCount > 0

\* C6: scoreHotspots returns one result per entry of its input list, in the
\* order of the list.
C6_OneResultPerFileInOrder ==
    Scored =>
        /\ Len(scored) = Len(filteredFiles)
        /\ \A i \in 1..Len(scored) : scored[i].file = filteredFiles[i]

\* the input order is not the order of the scores
C6_Witness ==
    /\ Scored
    /\ Len(scored) >= 2
    /\ ~scored[1].hotspotScore.nan /\ ~scored[2].hotspotScore.nan
    /\ scored[1].hotspotScore.val < scored[2].hotspotScore.val

\* C7: a result's tier is CRITICAL iff its score is at least 75, HIGH iff it
\* is between 50 and 74, MEDIUM iff it is between 25 and 49, and LOW iff it
\* is below 25 (every comparison with a score that is not a number is false).
C7_TierThresholds ==
    Scored =>
        \A i \in 1..Len(scored) :
            LET s == scored[i].hotspotScore
                t == scored[i].tier
            IN  /\ t = "CRITICAL" <=> (~s.nan /\ s.val >= 75)
                /\ t = "HIGH"     <=> (~s.nan /\ s.val >= 50 /\ s.val <= 74)
                /\ t = "MEDIUM"   <=> (~s.nan /\ s.val >= 25 /\ s.val <= 49)
                /\ t = "LOW"      <=> (~s.nan /\ s.val < 25)

\* runAnalysis has handed over the report of the (only) repository
Reported ==
    /\ pc \in {"loop", "done"}
    /\ Len(outcomes) = 1
    /\ outcomes[1].kind = "report"

\* score a is higher than score b (never so when either is not a number)
Higher(a, b) == ~a.nan /\ ~b.nan /\ a.val > b.val

\* C8: with bugs-only off and top-N = N >= 0, runAnalysis scores every
\* filtered file before it truncates: the results are in non-increasing order
\* of hotspotScore, there are min(N, number of filtered files) of them, and
\* no filtered file left out of the results has a higher score than a file in
\* the results.
C8_TopNAfterScoringAll ==
    (Reported /\ ~config.bugsOnly) =>
        LET results == outcomes[1].report.results
            shown   == {results[i].file : i \in 1..Len(results)}
        IN  /\ Len(scored) = Len(filteredFiles)
            /\ \A i \in 1..Len(results) : \E k \in 1..Len(scored) : results[i] = scored[k]
            /\ \A i \in 1..Len(results) : \A j \in (i + 1)..Len(results) :
                  ~Higher(results[j].hotspotScore, results[i].hotspotScore)
            /\ Len(results) = Min2(config.topN, Len(filteredFiles))
            /\ \A k \in 1..Len(scored) : \A i \in 1..Len(results) :
                  scored[k].file \notin shown =>
                      ~Higher(scored[k].hotspotScore, results[i].hotspotScore)

\* a truncation that leaves out files, the first scored file among them
C8_Witness ==
    /\ Reported /\ ~config.bugsOnly
    /\ config.topN > 0
    /\ Len(outcomes[1].report.results) = config.topN
    /\ Len(scored) > config.topN
    /\ Higher(outcomes[1].report.results[1].hotspotScore, scored[1].hotspotScore)

\* C9: in multi-repo mode every discovered repository is analysed exactly
\* once, in order; an exception raised while one repository is analysed is
\* reported for that repository only, and every later repository is still
\* analysed.
C9_EachRepoOnceInOrder ==
    /\ Len(outcomes) = ri - 1
    /\ \A i \in 1..Len(outcomes) :
          /\ outcomes[i].repo = i
          /\ outcomes[i].kind = "report" =>
                outcomes[i].report.meta.commitCount = Len(repos[i])
    /\ pc = "loop" /\ ri <= Len(repos) => ENABLED NextRepo
    /\ pc = "done" => Len(outcomes) = Len(repos)

\* the analysis of the first repository failed and the second was analysed
C9_Witness ==
    /\ pc = "done"
    /\ Len(repos) >= 2
    /\ outcomes[1].kind = "failed"
    /\ outcomes[2].kind = "report"

\* the paths of the scanned histories that are sensitive: a dot-env file, a
\* key or certificate extension, a credential-style file name
SensitivePaths ==
    {".env", ".env.production", "server.key", "certs/cert.pem", "dist/server.key",
     "config/secrets.yml", "node_modules/x/.env"}

\* the paths of the scanned histories that are not
PlainPaths ==
    {"src/a.ts", "src/b.ts", "lib/c.ts", "src/app.ts", "package.json", ".envrc",
     "docs/keynote.md"}

\* C10: analyzeSecurityRisks returns exactly one entry for each distinct
\* sensitive path that some commit touches, and no entry for any other path.
C10_OneEntryPerSensitivePath ==
    (pc = "call" /\ step = 3) =>
        LET touched == UNION {Range(commits[k].files) : k \in 1..Len(commits)}
        IN  /\ touched \subseteq SensitivePaths \cup PlainPaths
            /\ \A f \in touched \cap SensitivePaths :
                  Cardinality({i \in 1..Len(securityRisks) : securityRisks[i].file = f}) = 1
            /\ \A i \in 1..Len(securityRisks) :
                  securityRisks[i].file \in touched \cap SensitivePaths

\* a history that touches .env twice along with paths that are not sensitive
C10_Witness ==
    /\ pc = "call" /\ step = 3
    /\ Len(securityRisks) >= 2
    /\ \E i \in 1..Len(securityRisks) :
          securityRisks[i].file = ".env" /\ securityRisks[i].commitCount >= 2
    /\ \E k \in 1..Len(commits) : ".envrc" \in Range(commits[k].files)
    /\ \E k \in 1..Len(commits) : "src/app.ts" \in Range(commits[k].files)

\* the paths that the commits of repository i touch
RepoPaths(i) ==
    LET cs == parseLog(repos[i])
    IN  UNION {Range(cs[k].files) : k \in 1..Len(cs)}

\* C11: every security-sensitive file that appears in a commit of a
\* repository's history is reported for that repository, whatever the noise
\* filter excludes, also when the filter excludes every observed file.
C11_SensitiveFilesAlwaysReported ==
    \A i \in 1..Len(outcomes) :
        outcomes[i].kind \in {"report", "no-files"} =>
            \A f \in RepoPaths(i) \cap SensitivePaths :
                /\ outcomes[i].kind = "report"
                /\ \E k \in 1..Len(outcomes[i].report.securityRisks) :
                      outcomes[i].report.securityRisks[k].file = f

\* the paths of FilterPaths that are noise: a segment in the excluded
\* directories, a final segment in the excluded file names, or a final segment
\* that ends, in lower case, in an excluded extension
NoisePaths ==
    {"package.json", "src/package.json", "node_modules/lodash/index.js",
     "src/vendor/x.ts", "src/app.min.js", "src/Logo.PNG", "src/dist"}

\* the paths of FilterPaths that lie under the directory src
UnderSrc ==
    {"src/app.ts", "src/package.json", "src/vendor/x.ts", "src/app.min.js",
     "src/Logo.PNG", "src/build.ts", "src/dist"}

\* the paths of FilterPaths within the scope
InScope(scope) ==
    IF scope = "" THEN FilterPaths
    ELSE IF scope \in {"src", "src/"} THEN UnderSrc \cup ({scope} \cap FilterPaths)
    ELSE IF scope = "tests" THEN {"tests/foo.ts"}
    ELSE {}

\* the entries of list, in order, that are in the set keep
RECURSIVE Selection(_, _)
Selection(list, keep) ==
    IF Len(list) = 0 THEN <<>>
    ELSE (IF Head(list) \in keep THEN <<Head(list)>> ELSE <<>>)
             \o Selection(Tail(list), keep)

\* C12: filterFiles returns, in input order, exactly the input paths that are
\* non-empty, within the scope and not noise (excluded directory segment,
\* excluded file name, excluded extension of the lower-cased final segment,
\* compound extensions included); filtering a filtered list returns it
\* unchanged.
C12_OrderPreservingSelection ==
    (pc = "call" /\ step \in {5, 6} /\ Len(commits) = 0 /\ Len(scored) = 0) =>
        filteredFiles = Selection(inputFiles, (InScope(config.pathFilter) \ NoisePaths) \ {""})

\* filterFiles has run twice on a list with a kept path, an upper-case
\* extension or a compound extension, the kept path last
C12_Witness ==
    /\ pc = "call" /\ step = 6
    /\ Len(inputFiles) = 2 /\ Len(filteredFiles) = 1
    /\ inputFiles[1] \in {"src/Logo.PNG", "src/app.min.js"}
    /\ inputFiles[2] = "src/build.ts"

\* C13: with a scope S, a path passes the scope check iff it equals S or
\* lies under the directory S; src2/a.ts (S = src as a mere string prefix)
\* and tests/foo.ts (another directory) are excluded.
C13_ScopeIsDirectory ==
    (pc = "call" /\ step = 5 /\ config.pathFilter # "" /\ Len(commits) = 0) =>
        LET S == config.pathFilter
        IN  /\ \A i \in 1..Len(inputFiles) :
                  (inputFiles[i] \notin NoisePaths /\ inputFiles[i] # "") =>
                      (inputFiles[i] \in Range(filteredFiles)
                           <=> (inputFiles[i] = S \/ inputFiles[i] \in InScope(S)))
            /\ S \in {"src", "src/"} =>
                  /\ "src2/a.ts" \notin Range(filteredFiles)
                  /\ "tests/foo.ts" \notin Range(filteredFiles)

\* scope src on a list with src2/a.ts and a path under src
C13_Witness ==
    /\ pc = "call" /\ step = 5
    /\ config.pathFilter = "src"
    /\ inputFiles = <<"src2/a.ts", "src/app.ts">>
    /\ filteredFiles = <<"src/app.ts">>

\* both parsers have run on the history of the current repository
Parsed == pc = "run" /\ step >= 4

\* the raw lines that git printed for commit k of the current repository
RawLines(k) == Range(repos[ri][k].files)

\* C14: a change recorded as 'old.ts => new.ts' is attributed to new.ts, never
\* to old.ts or to the raw arrow string, in the commit's file list and in the
\* DiffStats keys, and both parsers give the same name for the same raw path.
C14_PlainRenameToNewName ==
    Parsed =>
        /\ \A k \in 1..Len(commits) :
              "old.ts => new.ts" \in RawLines(k) =>
                  /\ "new.ts" \in Range(commits[k].files)
                  /\ "old.ts" \notin Range(commits[k].files)
                  /\ "old.ts => new.ts" \notin Range(commits[k].files)
                  /\ "new.ts" \in DOMAIN diffStats
        /\ "old.ts" \notin DOMAIN diffStats
        /\ "old.ts => new.ts" \notin DOMAIN diffStats
        /\ DOMAIN diffStats = UNION {Range(commits[k].files) : k \in 1..Len(commits)}

\* a history with the plain rename and another commit
C14_Witness ==
    /\ Parsed
    /\ Len(commits) >= 2
    /\ \E k \in 1..Len(commits) : "old.ts => new.ts" \in RawLines(k)
    /\ "new.ts" \in DOMAIN diffStats
    /\ "src/a.ts" \in DOMAIN diffStats

\* the post-rename path of each brace-form line of the histories
BraceRenames ==
    [raw \in {"src/{old-dir => new-dir}/file.js", "src/{ => new}/f.js",
              "src/{old => }/g.js"} |->
        IF raw = "src/{old-dir => new-dir}/file.js" THEN "src/new-dir/file.js"
        ELSE IF raw = "src/{ => new}/f.js" THEN "src/new/f.js"
        ELSE "src/g.js"]

\* C15: a path prefix/{old-part => new-part}/suffix with a single brace group
\* resolves to prefix/new-part/suffix, without a doubled slash, in
\* Commit.files and in the DiffStats keys, an empty old-part or new-part
\* included.
C15_BraceRenameResolved ==
    Parsed =>
        \A k \in 1..Len(commits) :
            \A raw \in RawLines(k) \cap DOMAIN BraceRenames :
                /\ BraceRenames[raw] \in Range(commits[k].files)
                /\ BraceRenames[raw] \in DOMAIN diffStats

\* the timestamps of the commits, ascending
Ascending == SortSeq([k \in 1..Len(commits) |-> commits[k].timestamp], LAMBDA a, b : a < b)

\* the last position of the window that opens at position i of the ascending
\* timestamps: the commits up to 24 hours after the commit at i
WindowEnd(i) ==
    SetMax({j \in i..Len(Ascending) : Ascending[j] - Ascending[i] <= 24 * 3600})

\* the position i lies in the run that starts at a
InRun(i, a) == a <= i /\ i <= WindowEnd(a)

\* the starts of the counted runs: a position starts a run iff it lies in no
\* run that starts earlier and its window holds at least 3 commits
RunStarts ==
    CHOOSE R \in SUBSET (1..Len(Ascending)) :
        \A i \in 1..Len(Ascending) :
            i \in R <=> /\ \A a \in R : a < i => ~InRun(i, a)
                        /\ WindowEnd(i) - i + 1 >= 3

\* C16: for the timestamps of the commits of a file in any input order,
\* analyzeBursts counts disjoint runs of the ascending timestamps, each of at
\* least 3 commits within 24 hours of its first commit and reaching to the
\* last commit inside that window; the hour offsets 0, 1, 2, 30, 31, 32, 33
\* give exactly 2 incidents.
C16_DisjointBurstRuns ==
    (pc = "call" /\ step = 8 /\ "src/f.ts" \in DOMAIN burstData) =>
        /\ burstData["src/f.ts"].burstIncidents = Cardinality(RunStarts)
        /\ \A a, b \in RunStarts : a < b => WindowEnd(a) < b
        /\ {commits[k].timestamp : k \in 1..Len(commits)}
               = {Hour(h) : h \in {0, 1, 2, 30, 31, 32, 33}}
             => burstData["src/f.ts"].burstIncidents = 2

\* the seven commits of the example, not in ascending order
C16_Witness ==
    /\ pc = "call" /\ step = 8
    /\ Len(commits) = 7
    /\ commits[1].timestamp = Hour(33)
    /\ burstData["src/f.ts"].burstIncidents = 2

\* the file list s in reverse order
Reversed(s) == [i \in 1..Len(s) |-> s[Len(s) + 1 - i]]

\* the commit lists that differ from commits only in the order in which
\* commits list their files: one commit's list reversed, or every list reversed
Relistings ==
    {[k \in 1..Len(commits) |->
         IF k \in K THEN [commits[k] EXCEPT !.files = Reversed(@)] ELSE commits[k]] :
       K \in {{k} : k \in 1..Len(commits)} \cup {1..Len(commits)}}

\* how often the commits list x and y together: the pairs of positions of a
\* commit's filtered files that hold x and y, in the commits of at most 20
\* filtered files
CoChangeCount(x, y) ==
    SumSeq([k \in 1..Len(commits) |->
        LET t == SelectSeq(commits[k].files, LAMBDA f : f \in Range(filteredFiles))
        IN  IF Len(t) > 20 THEN 0
            ELSE Cardinality({p \in (1..Len(t)) \X (1..Len(t)) :
                                 p[1] < p[2] /\ {t[p[1]], t[p[2]]} = {x, y}})])

\* analyzeCoupling has run in a direct call
Coupled == pc = "call" /\ step \in {8, 9, 10}

C18_InitialCommitScenario ==
    (/\ Reported
     /\ repos[1] = <<EntryInitial>>
     /\ config.since = "" /\ config.pathFilter = "" /\ ~config.bugsOnly
     /\ config.topN >= 1
     /\ config.weights = DEFAULT_WEIGHTS) =>
        LET results == outcomes[1].report.results
        IN  /\ filteredFiles = <<"src/a.ts">>
            /\ Len(results) = 1
            /\ results[1].file = "src/a.ts"
            /\ results[1].details.commitCount = 1
            /\ results[1].details.bugCommits = 0
            /\ results[1].tier = "LOW"

\* what became of repository i, without the repository's index
Outcome(i) == [f \in DOMAIN outcomes[i] \ {"repo"} |-> outcomes[i][f]]

C20_EmptyFilteredSetReportsCounts ==
    \A i \in 1..Len(outcomes) :
        (/\ Len(parseLog(repos[i])) > 0
         /\ outcomes[i].kind # "failed"
         /\ filterFiles(AllFileNames(parseLog(repos[i])), config.pathFilter) = <<>>) =>
            /\ outcomes[i].kind = "no-files"
            /\ (i = ri - 1 /\ pc \in {"loop", "done"}) =>
                  /\ churnData = <<>> /\ bugData = <<>> /\ revertData = <<>>
                  /\ burstData = <<>> /\ couplingData = <<>>
                  /\ siloData = <<>> /\ commitQualityData = <<>>
                  /\ scored = <<>>
            /\ {"commitCount", "fileCount"} \subseteq DOMAIN outcomes[i]
            /\ outcomes[i].commitCount > 0
            /\ outcomes[i].fileCount = 0

\* ------------------------------------------------------------------------
\* C21: the records of the log output
\* ------------------------------------------------------------------------

\* the lines of the text, the header lines among them, and the number of
\* header lines before a line
OutLines == split(logOutput, "\n")

IsHeaderLine(i) == StartsWith(trim(OutLines[i]), "COMMIT|")

HeadersBefore(i) == Cardinality({j \in 1..(i - 1) : IsHeaderLine(j)})

\* the non-blank body lines that follow the k-th header up to the next one
BodyLines(k) ==
    SelectIdx(OutLines, LAMBDA i : /\ ~IsHeaderLine(i)
                                   /\ trim(OutLines[i]) # ""
                                   /\ HeadersBefore(i) = k)

\* the names of those lines that resolve to a name
ResolvedNames(k) ==
    LET names == [i \in 1..Len(BodyLines(k)) |-> normalizeFilename(trim(BodyLines(k)[i]))]
    IN  SelectIdx(names, LAMBDA i : names[i] # "")

\* parseCommitOutput has returned
ParsedOutput == pc = "call" /\ step = 2

\* one commit per header line, in the order of the headers
OneCommitPerHeader ==
    /\ Len(commits) = Cardinality({i \in 1..Len(OutLines) : IsHeaderLine(i)})
    /\ \A i \in 1..Len(OutLines) :
           IsHeaderLine(i) =>
               LET c     == commits[HeadersBefore(i) + 1]
                   parts == split(trim(OutLines[i]), "|")
               IN  /\ c.hash = (IF Len(parts) >= 2 THEN parts[2] ELSE "")
                   /\ c.author = (IF Len(parts) >= 3 THEN parts[3] ELSE "")

\* C21 (as stated): one Commit per header line, in log order, and every
\* non-blank body line is attributed to the most recent preceding header and to
\* no other commit: the files of the k-th commit are as many as the non-blank
\* body lines of the k-th record, and they are the names of those lines
C21_EveryBodyLineAttributed ==
    ParsedOutput =>
        /\ OneCommitPerHeader
        /\ \A k \in 1..Len(commits) :
               /\ Len(commits[k].files) = Len(BodyLines(k))
               /\ commits[k].files = ResolvedNames(k)

\* C21 (amended): one Commit per header line, in log order, a header without
\* file lines and the last record included; the files of the k-th commit are
\* the names, in order, of the non-blank body lines of the k-th record whose
\* name resolves; a line whose rename expression does not resolve is skipped,
\* blank lines are ignored and the lines before the first header are dropped
C21_ResolvedBodyLinesAttributed ==
    ParsedOutput =>
        /\ OneCommitPerHeader
        /\ \A k \in 1..Len(commits) : commits[k].files = ResolvedNames(k)

\* a text with a body line before the first header, a blank line, a line that
\* does not resolve, a header without file lines, and a last record with files
C21_Witness ==
    /\ ParsedOutput
    /\ Len(commits) >= 3
    /\ ~IsHeaderLine(1) /\ trim(OutLines[1]) # ""
    /\ \E i \in 1..Len(OutLines) : trim(OutLines[i]) = ""
    /\ \E k \in 1..Len(commits) : Len(commits[k].files) < Len(BodyLines(k))
    /\ \E k \in 1..Len(commits) : commits[k].files = <<>> /\ BodyLines(k) = <<>>
    /\ Len(commits[Len(commits)].files) = 2

\* ------------------------------------------------------------------------
\* C22: a burst is reported iff three commits fall within the window
\* ------------------------------------------------------------------------

\* analyzeBursts has returned
BurstsDone == pc = "call" /\ step \in 8..10

\* the commits (by position) that touch file
TouchingCommits(file) == {k \in 1..Len(commits) : file \in Range(commits[k].files)}

\* some three commits touching file span at most 24 hours
ThreeWithinWindow(file) ==
    \E a, b, c \in TouchingCommits(file) :
        /\ a # b /\ a # c /\ b # c
        /\ \A x, y \in {a, b, c} :
               commits[x].timestamp - commits[y].timestamp <= BURST_WINDOW_HOURS * 3600

\* C22: for every file of the list, analyzeBursts reports burstIncidents >= 1
\* if and only if some three commits touching the file have timestamps that
\* span at most 24 hours
C22_BurstIffThreeCommitsInWindow ==
    BurstsDone =>
        \A file \in Range(filteredFiles) :
            burstData[file].burstIncidents >= 1 <=> ThreeWithinWindow(file)

\* ------------------------------------------------------------------------
\* C23: what a commit adds to the pair counts and to the touch counts
\* ------------------------------------------------------------------------

\* the filtered files that the k-th commit touches
TouchedSet(k) == Range(commits[k].files) \cap Range(filteredFiles)

\* 1 per commit that touches f
TotalTouches(f) == Cardinality({k \in 1..Len(commits) : f \in TouchedSet(k)})

\* 1 per commit of at most 20 filtered files that touches both x and y
PairCommits(x, y) ==
    Cardinality({k \in 1..Len(commits) :
                    /\ Cardinality(TouchedSet(k)) <= MAX_FILES_PER_COMMIT
                    /\ {x, y} \subseteq TouchedSet(k)})

\* analyzeCoupling has returned
CouplingDone == pc = "call" /\ step = 8

\* C23: a commit touching more than 20 filtered files adds nothing to a pair's
\* co-change count but 1 to the touch count of each filtered file it touches,
\* a commit touching at most 20 adds exactly 1 to the count of every unordered
\* pair of distinct filtered files it touches; every emitted pair's strength is
\* round(coChanges / (totalA + totalB - coChanges) * 100), and the list is
\* sorted by coChanges descending
C23_PairAndTouchCounts ==
    CouplingDone =>
        /\ \A i \in 1..Len(couplingData) :
               LET e == couplingData[i]
               IN  /\ e.fileA # e.fileB
                   /\ e.coChanges = PairCommits(e.fileA, e.fileB)
                   /\ e.strength = Round(e.coChanges * 100,
                                         TotalTouches(e.fileA) + TotalTouches(e.fileB)
                                             - e.coChanges)
        /\ \A x, y \in Range(filteredFiles) :
               (x # y /\ PairCommits(x, y) >= 3) =>
                   \E i \in 1..Len(couplingData) :
                       {couplingData[i].fileA, couplingData[i].fileB} = {x, y}
        /\ \A i, j \in 1..Len(couplingData) :
               i < j => couplingData[i].coChanges >= couplingData[j].coChanges

\* ------------------------------------------------------------------------
\* C24, C25: which commits count as reverts and as large commits
\* ------------------------------------------------------------------------

\* analyzeReverts has returned
RevertsDone == pc = "call" /\ step = 7

\* the trimmed subject starts with the letters "revert" in any letter case
StartsWithRevert(subject) == StartsWith(toLowerCase(trim(subject)), "revert")

\* C24: revertCount of a file is the number of commits touching it whose
\* subject, trimmed, starts with the six letters 'revert' in any letter case,
\* whatever follows those letters
C24_RevertIffSubjectStartsWithRevert ==
    RevertsDone =>
        \A file \in Range(filteredFiles) :
            revertData[file].revertCount
                = Cardinality({k \in 1..Len(commits) :
                                  /\ file \in Range(commits[k].files)
                                  /\ StartsWithRevert(commits[k].subject)})

\* analyzeCommitQuality has returned
QualityDone == pc = "call" /\ step = 9

\* the k-th commit touches more than 30 files of the filtered file list
LargeByFilteredFiles(k) ==
    Cardinality(Range(commits[k].files) \cap Range(filteredFiles)) > LARGE_COMMIT_THRESHOLD

\* C25: largeCommitCount of a file is the number of commits touching it that
\* touch more than 30 files of the filtered file list (paths excluded by the
\* noise filter do not count toward the threshold)
C25_LargeIffOver30FilteredFiles ==
    QualityDone =>
        \A file \in Range(filteredFiles) :
            commitQualityData[file].largeCommitCount
                = Cardinality({k \in 1..Len(commits) :
                                  /\ file \in Range(commits[k].files)
                                  /\ LargeByFilteredFiles(k)})

\* ------------------------------------------------------------------------
\* C26: the max-normalised scores of bug correlation, reverts and bursts
\* ------------------------------------------------------------------------

\* the three analyzers have returned
CountersDone == pc = "call" /\ step \in 8..10

\* per analyzer, the pairs [raw, score] of the files of the list
RawAndScore ==
    [bugs    |-> {[raw |-> bugData[f].bugCommits, score |-> bugData[f].bugScore] :
                     f \in Range(filteredFiles)},
     reverts |-> {[raw |-> revertData[f].revertCount, score |-> revertData[f].revertScore] :
                     f \in Range(filteredFiles)},
     bursts  |-> {[raw |-> burstData[f].burstIncidents, score |-> burstData[f].burstScore] :
                     f \in Range(filteredFiles)}]

\* C26: for bug correlation, reverts and bursts, when no file of the list has
\* a positive raw count every file scores 0; otherwise every file holding the
\* greatest raw count scores exactly 100, every file with raw count 0 scores
\* 0, and the score is non-decreasing in the raw count
C26_MaxNormalisedScores ==
    CountersDone =>
        \A key \in DOMAIN RawAndScore :
            LET P == RawAndScore[key]
            IN  /\ \A p \in P : p.raw \in Nat /\ p.score \in 0..100
                /\ \A p \in P : p.raw = 0 => p.score = 0
                /\ (\E p \in P : p.raw > 0) =>
                       \A p \in P : (\A q \in P : q.raw <= p.raw) => p.score = 100
                /\ \A p, q \in P : p.raw <= q.raw => p.score <= q.score

\* bug counts 2, 2 and 1 score 100, 100 and 50, every file with a revert
\* holds the greatest count, and no file has a burst
C26_Witness ==
    /\ CountersDone
    /\ \E p, q \in RawAndScore.bugs :
           p.raw = 2 /\ p.score = 100 /\ q.raw = 1 /\ q.score = 50
    /\ \E p \in RawAndScore.reverts : p.raw > 0 /\ p.score = 100
    /\ \A p \in RawAndScore.bursts : p.raw = 0 /\ p.score = 0

\* ------------------------------------------------------------------------
\* C27: the churn score relative to the largest decay-weight sum
\* ------------------------------------------------------------------------

\* analyzeChurn has returned
ChurnDone == pc = "call" /\ step \in 6..10

\* the decay-weight sum of file: one weight per touch of file by a commit
DecaySum(file) ==
    SumSeq([k \in 1..Len(commits) |->
        Cardinality({i \in 1..Len(commits[k].files) : commits[k].files[i] = file})
            * DecayWeight(DaysAgo(now, commits[k].timestamp))])

\* C27: whenever a commit touches a file of the list, every file's
\* weightedScore is round(its decay-weight sum / the largest decay-weight sum
\* * 100), so that the file with the largest sum scores exactly 100, however
\* old the commits are
C27_ChurnRelativeToLargestSum ==
    ChurnDone =>
        LET largest == SetMax({DecaySum(f) : f \in Range(filteredFiles)})
        IN  largest > 0 =>
                \A f \in Range(filteredFiles) :
                    /\ churnData[f].weightedScore = Round(DecaySum(f) * 100, largest)
                    /\ DecaySum(f) = largest => churnData[f].weightedScore = 100

\* ------------------------------------------------------------------------
\* C28: a missing map entry and the analyzers' entry of an untouched file
\* ------------------------------------------------------------------------

\* scoreHotspots has returned from a call with every metric map empty
ScoredWithoutEntries == pc = "call" /\ step = 11

\* what the analyzers return for the files of the list when no commit touches
\* any of them
NoSignalInput ==
    [churnData         |-> analyzeChurn(<<>>, filteredFiles, now),
     bugData           |-> analyzeBugCorrelation(<<>>, filteredFiles),
     revertData        |-> analyzeReverts(<<>>, filteredFiles),
     burstData         |-> analyzeBursts(<<>>, filteredFiles),
     couplingData      |-> analyzeCoupling(<<>>, filteredFiles),
     siloData          |-> analyzeAuthors(<<>>, filteredFiles),
     commitQualityData |-> analyzeCommitQuality(<<>>, filteredFiles),
     diffStats         |-> <<>>,
     weights           |-> config.weights]

\* C28: for a file absent from a metric map, scoreHotspots uses the values the
\* analyzer returns for a file that no commit touches, so the results of the
\* files are the same whether their no-signal entries are missing or present
C28_MissingEntrySameAsNoSignalEntry ==
    ScoredWithoutEntries => scored = scoreHotspots(filteredFiles, NoSignalInput)

\* ------------------------------------------------------------------------
\* C29: the steps of runAnalysis leave what they are given as it is
\* ------------------------------------------------------------------------

\* C29: inside runAnalysis, no step after the one that produced it changes the
\* commit sequence, the security findings, the diff stats, the filtered file
\* list, a metric map or the coupling list: the scanner, the filter, the
\* analyzers, the scorer and the ranking step only read them
C29_StepsLeaveTheirInputs ==
    [][pc = "run" =>
          /\ step \in 2..9 => commits' = commits
          /\ step \in 3..9 => securityRisks' = securityRisks
          /\ step \in 4..9 => diffStats' = diffStats
          /\ step \in 5..9 => filteredFiles' = filteredFiles
          /\ step \in 6..9 => churnData' = churnData
          /\ step \in 7..9 => bugData' = bugData /\ revertData' = revertData
          /\ step \in 8..9 => burstData' = burstData /\ couplingData' = couplingData
          /\ step = 9 => siloData' = siloData /\ commitQualityData' = commitQualityData
      ]_vars

\* a run has ended with a report whose results are ranked in another order
\* than the file list, on commits that are not in ascending order of time:
\* the commits are still as parsed and the file list as filtered
C29_Witness ==
    /\ pc = "loop" /\ ri = 2
    /\ outcomes[1].kind = "report"
    /\ Len(commits) >= 2 /\ commits[1].timestamp > commits[2].timestamp
    /\ commits = parseLog(repos[1])
    /\ filteredFiles = filterFiles(AllFileNames(commits), config.pathFilter)
    /\ Len(outcomes[1].report.results) >= 2
    /\ outcomes[1].report.results[1].file # filteredFiles[1]
    /\ burstData = analyzeBursts(commits, filteredFiles)
    /\ couplingData = analyzeCoupling(commits, filteredFiles)

\* ------------------------------------------------------------------------
\* C30: --bugs-only filters the top N results
\* ------------------------------------------------------------------------

\* the place of the k-th scored file in the ranking: after the files of higher
\* score and after the files of the same score that precede it in the list
RankOf(k) ==
    1 + Cardinality({j \in 1..Len(scored) :
                        Higher(scored[j].hotspotScore, scored[k].hotspotScore)})
      + Cardinality({j \in 1..(k - 1) :
                        /\ ~Higher(scored[j].hotspotScore, scored[k].hotspotScore)
                        /\ ~Higher(scored[k].hotspotScore, scored[j].hotspotScore)})

\* C30: with bugs-only on and top-N = N, the reported results are the files
\* with bugCommits > 0 among the N highest-ranked filtered files, in ranking
\* order: the filter comes after the truncation
C30_BugsOnlyAfterTopN ==
    (Reported /\ config.bugsOnly) =>
        LET results == outcomes[1].report.results
            topBugs == {k \in 1..Len(scored) :
                           RankOf(k) <= config.topN /\ scored[k].details.bugCommits > 0}
        IN  /\ \A i \in 1..Len(results) : results[i].details.bugCommits > 0
            /\ Len(results) = Cardinality(topBugs)
            /\ \A i \in 1..Len(results) :
                   \E k \in topBugs :
                       /\ results[i] = scored[k]
                       /\ \A j \in 1..(i - 1) :
                              \E m \in topBugs : results[j] = scored[m] /\ RankOf(m) < RankOf(k)

\* fewer than N results are reported although N filtered files have bug-fix
\* commits: files without one fill the N highest ranks
C30_Witness ==
    /\ Reported /\ config.bugsOnly
    /\ config.topN = MaxTopN
    /\ Len(outcomes[1].report.results) < config.topN
    /\ Cardinality({k \in 1..Len(scored) : scored[k].details.bugCommits > 0}) >= config.topN

====
